---------------------------- MODULE Spec2Model ----------------------------
(***************************************************************************)
(* Verification model of the SikshyaMap diagnostic core:                   *)
(*   backend/app/models/concept.py        (prerequisite graph traversal)   *)
(*   backend/app/utils/diagnostic_engine.py (pattern matching, feedback,   *)
(*                                          backtrack decision)            *)
(*   backend/app/routes/progress.py       (mastery record upsert)          *)
(*                                                                         *)
(* Conventions.  A Python value that may be None is a sequence of length   *)
(* 0 (None) or 1 (the value).  An answer or trigger string is a sequence   *)
(* of one-character strings, so that strip(), lower() and the numeric     *)
(* regular expression are computed character by character.  A float is a  *)
(* binary64 number, written as the decimal it was converted from, in       *)
(* hundredths (17.3 is 1730), together with its rounding error.  Feedback  *)
(* and hint texts are TLA+ strings.                                        *)
(***************************************************************************)
EXTENDS Integers, Sequences, FiniteSets, TLC

VARIABLES
    prerequisites,  \* concept id -> ordered list of prerequisite ids (concept_prerequisites)
    root,           \* get_prerequisite_chain: the concept it was called on (None before)
    stack,          \* get_prerequisite_chain: the _dfs call stack
    visited,        \* get_prerequisite_chain: the visited set
    chain,          \* get_prerequisite_chain: the chain list
    pc,             \* get_prerequisite_chain: "idle" | "run" | "done"
    patterns,       \* the error_patterns table, in id (authoring) order
    query,          \* match_error_pattern: its last arguments (None before)
    matched,        \* match_error_pattern: its last return value
    checkpoint,     \* the checkpoints row handed to evaluate_checkpoint_answer
    progress,       \* the student_progress table: <<student, concept>> -> status
    call,           \* evaluate_checkpoint_answer: the arguments of the running call (None when idle)
    result,         \* evaluate_checkpoint_answer: the dict the running call is about to return
    looked_up,      \* whether that call ran the error_patterns query
    running,        \* concurrent evaluate_checkpoint_answer calls: arguments, position, row read
    before,         \* the student_progress table when those calls began
    path_query,     \* get_backtrack_path: the arguments of the running call (None when idle)
    path,           \* get_backtrack_path: the list the running call is about to return
    missing_query,  \* get_missing_prerequisites: the arguments of the running call (None when idle)
    missing,        \* get_missing_prerequisites: the list the running call is about to return
    answer_query,   \* _answers_match: its last arguments (None before)
    answer_match,   \* _answers_match: its last return value
    session,        \* the _sessions entry of the one session of the model
    requests,       \* the submit and complete-mission requests: locals and position
    attempts,       \* StudentProgress.attempts of the session's (student, concept) row
    classify_query, \* _classify_wrong_option: its last arguments (None before)
    classified,     \* _classify_wrong_option: its last return value
    diagnosis_query,\* run_diagnosis: its last payload (None before)
    diagnosis       \* run_diagnosis: its last return value

vars == <<prerequisites, root, stack, visited, chain, pc, patterns, query,
          matched, checkpoint, progress, call, result, looked_up, running, before,
          path_query, path, missing_query, missing, answer_query, answer_match,
          session, requests, attempts, classify_query, classified,
          diagnosis_query, diagnosis>>

chainVars == <<root, stack, visited, chain, pc>>
matchVars == <<query, matched>>
evalVars == <<checkpoint, progress, call, result, looked_up>>
concVars == <<running, before>>
pathVars == <<path_query, path>>
missingVars == <<missing_query, missing>>
answerVars == <<answer_query, answer_match>>
sessionVars == <<session, requests, attempts>>
classifyVars == <<classify_query, classified>>
diagnosisVars == <<diagnosis_query, diagnosis>>

-----------------------------------------------------------------------------
(* Bounds of the model *)

NumConcepts == 3
MaxPrereqs == 2
MaxPatterns == 3
MaxRecords == 2
MaxAttempt == 4

ConceptIds == 1..NumConcepts
\* the students rows
Students == {1, 2}

(* Optional values *)
None == <<>>
Some(v) == <<v>>
IsNone(o) == o = <<>>
Get(o) == o[1]

-----------------------------------------------------------------------------
(* Strings as character sequences *)

Digits == {"0", "1", "2", "3", "4", "5", "6", "7", "8", "9"}

DigitVal(c) ==
    CASE c = "0" -> 0 [] c = "1" -> 1 [] c = "2" -> 2 [] c = "3" -> 3
      [] c = "4" -> 4 [] c = "5" -> 5 [] c = "6" -> 6 [] c = "7" -> 7
      [] c = "8" -> 8 [] c = "9" -> 9

IsSpace(c) == c \in {" "}

\* str.lower(), on the letters the modelled texts use
LowerChar(c) ==
    CASE c = "A" -> "a" [] c = "B" -> "b" [] c = "C" -> "c" [] c = "I" -> "i"
      [] c = "M" -> "m" [] c = "N" -> "n" [] c = "O" -> "o" [] c = "S" -> "s"
      [] c = "T" -> "t" [] c = "V" -> "v" [] c = "W" -> "w" [] c = "X" -> "x"
      [] c = "Y" -> "y" [] OTHER -> c

Lower(s) == [i \in 1..Len(s) |-> LowerChar(s[i])]

\* str.strip(): drops the leading and the trailing whitespace
Strip(s) ==
    LET nonsp == {i \in 1..Len(s) : ~IsSpace(s[i])}
    IN  IF nonsp = {} THEN <<>>
        ELSE LET lo == CHOOSE i \in nonsp : \A j \in nonsp : i <= j
                 hi == CHOOSE i \in nonsp : \A j \in nonsp : j <= i
             IN  SubSeq(s, lo, hi)

\* the index after the longest run of digits of s that starts at index i
RECURSIVE DigitRunEnd(_, _)
DigitRunEnd(s, i) ==
    IF i <= Len(s) /\ s[i] \in Digits THEN DigitRunEnd(s, i + 1) ELSE i

\* the value of the digits s[i..j-1] read as a decimal integer
RECURSIVE DigitsValue(_, _, _)
DigitsValue(s, i, j) ==
    IF j <= i THEN 0 ELSE DigitsValue(s, i, j - 1) * 10 + DigitVal(s[j - 1])

\* the fraction digits s[i..j-1] in hundredths (the modelled texts carry at most two)
FractionValue(s, i, j) ==
    IF j - i = 1 THEN DigitVal(s[i]) * 10
    ELSE DigitVal(s[i]) * 10 + DigitVal(s[i + 1])

-----------------------------------------------------------------------------
(***************************************************************************)
(* Python floats (IEEE-754 binary64, round to nearest, ties to even).      *)
(* float() of a decimal text of value h/100 is the multiple of 2^(p-52)    *)
(* nearest to h/100, where 2^p <= h/100 < 2^(p+1).  Such a number x is     *)
(* written [h, e] with x = h/100 + e / (100 * 2^59): h is the decimal in   *)
(* hundredths and e the rounding error, an integer for every x that is a   *)
(* multiple of 2^-59, so for 0 and every decimal from 0.01 to 127.99, the  *)
(* range of the answers and tolerances of the model.  With k = 52 - p the  *)
(* mantissa is h*2^k/100 rounded to an integer, so the rounding is decided *)
(* by the residue of h*2^k modulo 100, computed modulo 200 to keep the     *)
(* parity of the mantissa.                                                 *)
(***************************************************************************)

RECURSIVE Pow2(_)
Pow2(n) == IF n = 0 THEN 1 ELSE 2 * Pow2(n - 1)

RECURSIVE Pow2Mod200(_)
Pow2Mod200(n) == IF n = 0 THEN 1 ELSE (2 * Pow2Mod200(n - 1)) % 200

\* the binary exponent p of the decimal h/100, h >= 1
Exponent(h) ==
    CHOOSE p \in (0 - 7)..6 :
        100 * Pow2(p + 7) <= h * 128 /\ h * 128 < 100 * Pow2(p + 8)

\* h * 2^(52 - p) modulo 200
Residue(h) == ((h % 200) * Pow2Mod200(52 - Exponent(h))) % 200

\* whether h * 2^(52 - p) / 100 is rounded up to the mantissa
RoundsUp(h) ==
    \/ (Residue(h) % 100) > 50
    \/ (Residue(h) % 100) = 50 /\ ((Residue(h) \div 100) % 2) = 1

\* the rounding error of float() on the decimal h/100, in units of 1/(100 * 2^59)
RoundingError(h) ==
    IF h = 0 THEN 0
    ELSE (IF RoundsUp(h) THEN 100 - (Residue(h) % 100) ELSE 0 - (Residue(h) % 100))
            * Pow2(7 + Exponent(h))

\* whether the mantissa of float() of the decimal h/100 is odd
MantissaOdd(h) ==
    /\ h # 0
    /\ (((Residue(h) \div 100) + (IF RoundsUp(h) THEN 1 ELSE 0)) % 2) = 1

\* half the distance from float() of h/100 to the next float above it
HalfUlp(h) == IF h = 0 THEN 0 ELSE 50 * Pow2(7 + Exponent(h))

\* float() of the decimal text of value h/100
Float(h) ==
    IF h < 0 THEN [h |-> h, e |-> 0 - RoundingError(0 - h)]
    ELSE [h |-> h, e |-> RoundingError(h)]

\* x < y for two numbers written [h, e]
LessThan(x, y) == x.h < y.h \/ (x.h = y.h /\ x.e < y.e)

\* the exact value of |s - c| for two floats s and c
AbsDifference(s, c) ==
    LET d == [h |-> s.h - c.h, e |-> s.e - c.e]
    IN  IF LessThan(d, [h |-> 0, e |-> 0]) THEN [h |-> 0 - d.h, e |-> 0 - d.e] ELSE d

\* Float columns (tolerance, trigger_tolerance) hold the float of the authored
\* decimal; the rows of the model carry that decimal in hundredths
Tolerances == {0, 1, 50}

\* for each tolerance t: the point halfway from float(t) to the float above it,
\* the point halfway to the float below it (half as far when float(t) is a power
\* of two), and whether a difference lying on such a point is rounded to float(t)
ToleranceBounds ==
    [t \in Tolerances |->
        [above |-> [h |-> t, e |-> RoundingError(t) + HalfUlp(t)],
         below |-> [h |-> t, e |-> RoundingError(t)
                       - (IF t # 0 /\ t * 128 = 100 * Pow2(Exponent(t) + 7)
                          THEN HalfUlp(t) \div 2 ELSE HalfUlp(t))],
         ties |-> ~MantissaOdd(t)]]

\* abs(s - c) < tolerance: the difference s - c rounded to a float, compared
\* with the float of the tolerance
AbsDifferenceBelow(s, c, tolerance) ==
    LET d == AbsDifference(s, c)
        t == ToleranceBounds[tolerance]
    IN  ~(LessThan(t.below, d) \/ (d = t.below /\ t.ties))

\* abs(s - c) <= tolerance
AbsDifferenceWithin(s, c, tolerance) ==
    LET d == AbsDifference(s, c)
        t == ToleranceBounds[tolerance]
    IN  LessThan(d, t.above) \/ (d = t.above /\ t.ties)

(***************************************************************************)
(* _parse_numeric: strip, then re.match(r'^[-+]?\d*\.?\d+'), then float()  *)
(* of the matched prefix.  The expression matches an optional sign, then   *)
(* either digits '.' digits (the integer digits may be absent) or, when no *)
(* '.digit' follows the integer digits, the integer digits alone (which    *)
(* must then be present); whatever follows the match is ignored.           *)
(***************************************************************************)
ParseNumericOf(val) ==
    LET s == Strip(val)
        signed == Len(s) >= 1 /\ s[1] \in {"-", "+"}
        start == IF signed THEN 2 ELSE 1
        sign == IF signed /\ s[1] = "-" THEN 0 - 1 ELSE 1
        intEnd == DigitRunEnd(s, start)
        hasFrac == /\ intEnd + 1 <= Len(s)
                   /\ s[intEnd] = "."
                   /\ s[intEnd + 1] \in Digits
        fracEnd == DigitRunEnd(s, intEnd + 1)
    IN  IF hasFrac
        THEN Some(Float(sign * (DigitsValue(s, start, intEnd) * 100
                                + FractionValue(s, intEnd + 1, fracEnd))))
        ELSE IF intEnd > start
        THEN Some(Float(sign * DigitsValue(s, start, intEnd) * 100))
        ELSE None

\* every answer, trigger and correct-answer text of the model
S_15_6 == <<"1", "5", ".", "6">>
S_16_1 == <<"1", "6", ".", "1">>
S_16_m == <<"1", "6", " ", "m">>
S_16_M == <<" ", "1", "6", "M">>
S_abc == <<"a", "b", "c">>
S_ABC == <<" ", "A", "B", "C", " ">>
S_dash == <<"-">>
S_17_31 == <<"1", "7", ".", "3", "1">>
S_17_3 == <<"1", "7", ".", "3">>
S_10 == <<"1", "0">>
S_12 == <<"1", "2">>
S_0 == <<"0">>
S_99 == <<"9", "9">>
S_17_29 == <<"1", "7", ".", "2", "9">>
S_9_8 == <<"9", ".", "8">>
S_9_81 == <<"9", ".", "8", "1">>
S_9_79 == <<"9", ".", "7", "9">>

Texts ==
    {S_15_6, S_16_1, S_16_m, S_16_M, S_abc, S_ABC, S_dash,
     S_17_31, S_17_3, S_10, S_12, S_0, S_99, S_17_29, S_9_8, S_9_81, S_9_79}

\* _parse_numeric and strip().lower() of each text, evaluated once per text
ParsedTexts == [t \in Texts |-> ParseNumericOf(t)]
NormalizedTexts == [t \in Texts |-> Lower(Strip(t))]

ParseNumeric(val) == ParsedTexts[val]
Normalized(val) == NormalizedTexts[val]

\* _answers_match: numeric comparison when both parse, else trimmed lower-case equality
AnswersMatch(student_answer, correct_answer, tolerance) ==
    LET s_num == ParseNumeric(student_answer)
        c_num == ParseNumeric(correct_answer)
    IN  IF ~IsNone(s_num) /\ ~IsNone(c_num)
        THEN AbsDifferenceWithin(Get(s_num), Get(c_num), tolerance)
        ELSE Normalized(student_answer) = Normalized(correct_answer)

-----------------------------------------------------------------------------
(* 6.1 Error pattern matching *)

\* the test of the loop body of match_error_pattern for one pattern p
PatternMatchesFlipped(p, student_answer) ==
    LET s_num == ParseNumeric(student_answer)
        t_num == ParseNumeric(p.trigger_value)
    IN  IF ~IsNone(s_num) /\ ~IsNone(t_num)
        THEN AbsDifferenceBelow(Get(s_num), Get(t_num), p.trigger_tolerance)
        ELSE Normalized(student_answer) = Normalized(p.trigger_value)

PatternMatches(p, student_answer) ==
    LET s_num == ParseNumeric(student_answer)
        t_num == ParseNumeric(p.trigger_value)
    IN  IF ~IsNone(s_num) /\ ~IsNone(t_num)
        THEN AbsDifferenceWithin(Get(s_num), Get(t_num), p.trigger_tolerance)
        ELSE Normalized(student_answer) = Normalized(p.trigger_value)

\* ErrorPattern.query.filter_by(checkpoint_id=...).all(): the rows in id order
PatternsOf(checkpoint_id) ==
    SelectSeq(patterns, LAMBDA p : p.checkpoint_id = checkpoint_id)

\* one step of a stable descending sort: p goes after every element whose
\* confidence is at least its own
RECURSIVE InsertByConfidence(_, _)
InsertByConfidence(sorted, p) ==
    IF sorted = <<>> THEN <<p>>
    ELSE IF Head(sorted).confidence >= p.confidence
         THEN <<Head(sorted)>> \o InsertByConfidence(Tail(sorted), p)
         ELSE <<p>> \o sorted

RECURSIVE SortFrom(_, _)
SortFrom(sorted, rest) ==
    IF rest = <<>> THEN sorted
    ELSE SortFrom(InsertByConfidence(sorted, Head(rest)), Tail(rest))

\* a sort that is descending but puts the later of two equal elements first
RECURSIVE InsertByConfidenceUnstable(_, _)
InsertByConfidenceUnstable(sorted, p) ==
    IF sorted = <<>> THEN <<p>>
    ELSE IF Head(sorted).confidence > p.confidence
         THEN <<Head(sorted)>> \o InsertByConfidenceUnstable(Tail(sorted), p)
         ELSE <<p>> \o sorted

RECURSIVE SortFromUnstable(_, _)
SortFromUnstable(sorted, rest) ==
    IF rest = <<>> THEN sorted
    ELSE SortFromUnstable(InsertByConfidenceUnstable(sorted, Head(rest)), Tail(rest))

SortByConfidenceDescUnstable(matches) == SortFromUnstable(<<>>, matches)

\* matches.sort(key=lambda p: p.confidence, reverse=True): stable, ties keep their order
SortByConfidenceDesc(matches) == SortFrom(<<>>, matches)

\* match_error_pattern(checkpoint_id, student_answer)
MatchErrorPattern(checkpoint_id, student_answer) ==
    LET matches == SelectSeq(PatternsOf(checkpoint_id),
                             LAMBDA p : PatternMatches(p, student_answer))
    IN  IF matches = <<>> THEN None
        ELSE Some(SortByConfidenceDesc(matches)[1])


-----------------------------------------------------------------------------
(* Texts used by the model *)


\* answers: the decimal 16.1 is 0.5 from the trigger 15.6, and the float 16.1 is
\* more than the float 0.5 from the float 15.6; " 16M" parses as 16, which is 0.4
\* from 15.6 and equal to the value of "16 m"; " ABC " and "-" do not parse
MatchAnswers == {S_16_1, S_16_M, S_ABC, S_dash}
MatchConfidences == {50, 90}
CheckpointIds == {1, 2}

\* (trigger_value, trigger_tolerance) pairs of the authored patterns
MatchTriggers ==
    {[trigger_value |-> S_15_6, trigger_tolerance |-> 50],
     [trigger_value |-> S_16_m, trigger_tolerance |-> 0],
     [trigger_value |-> S_abc, trigger_tolerance |-> 50]}

\* the columns of an error_patterns row that the matcher reads
PatternChoices ==
    {[checkpoint_id |-> c, trigger_value |-> t.trigger_value,
      trigger_tolerance |-> t.trigger_tolerance, confidence |-> k]
       : c \in CheckpointIds, t \in MatchTriggers, k \in MatchConfidences}

\* an error_patterns row; its id is its position in authoring order
PatternRow(i, c) ==
    [id |-> i, checkpoint_id |-> c.checkpoint_id, trigger_value |-> c.trigger_value,
     trigger_tolerance |-> c.trigger_tolerance, confidence |-> c.confidence,
     error_type |-> "TRIG_FUNCTION_SWAP", diagnosis_text |-> "Used sin instead of cos",
     missing_concept_id |-> None]

PatternTables ==
    UNION {{[i \in 1..n |-> PatternRow(i, f[i])] : f \in [1..n -> PatternChoices]}
           : n \in 0..MaxPatterns}

-----------------------------------------------------------------------------
(* Initial values of the parts a specification does not exercise *)

NoGraph == [c \in ConceptIds |-> <<>>]
NoProgress == [k \in Students \X (1..(NumConcepts + 1)) |-> "no_record"]
NoCheckpoint ==
    [id |-> 1, correct_answer |-> S_dash, tolerance |-> 1, hint |-> None,
     problem_concept_id |-> 1]

ChainIdle ==
    /\ root = None
    /\ stack = <<>>
    /\ visited = {}
    /\ chain = <<>>
    /\ pc = "idle"

MatchIdle ==
    /\ query = None
    /\ matched = None

EvalIdle ==
    /\ progress = NoProgress
    /\ call = None
    /\ result = None
    /\ looked_up = FALSE

ConcIdle ==
    /\ running = <<>>
    /\ before = NoProgress

PathIdle ==
    /\ path_query = None
    /\ path = <<>>

MissingIdle ==
    /\ missing_query = None
    /\ missing = <<>>

AnswerIdle ==
    /\ answer_query = None
    /\ answer_match = FALSE

SessionIdle ==
    /\ session = None
    /\ requests = <<>>
    /\ attempts = 0

ClassifyIdle ==
    /\ classify_query = None
    /\ classified = None

DiagnosisIdle ==
    /\ diagnosis_query = None
    /\ diagnosis = None

-----------------------------------------------------------------------------
(* SpecMatch: match_error_pattern over every small pattern table *)

InitMatch ==
    /\ patterns \in PatternTables
    /\ prerequisites = NoGraph
    /\ checkpoint = NoCheckpoint
    /\ ChainIdle
    /\ MatchIdle
    /\ EvalIdle
    /\ ConcIdle
    /\ PathIdle
    /\ MissingIdle
    /\ AnswerIdle
    /\ ClassifyIdle
    /\ DiagnosisIdle
    /\ SessionIdle

\* a call match_error_pattern(checkpoint_id, student_answer)
Match(checkpoint_id, student_answer) ==
    /\ query' = Some([checkpoint_id |-> checkpoint_id, student_answer |-> student_answer])
    /\ matched' = MatchErrorPattern(checkpoint_id, student_answer)
    /\ UNCHANGED <<diagnosisVars, classifyVars, sessionVars, answerVars, missingVars, pathVars, concVars, prerequisites, patterns, chainVars, evalVars>>

NextMatch ==
    \E c \in CheckpointIds, a \in MatchAnswers : Match(c, a)

SpecMatch == InitMatch /\ [][NextMatch]_vars

-----------------------------------------------------------------------------
(* Claims about match_error_pattern *)

\* the matching rule as the specification words it
BothNumeric(a, t) == ~IsNone(ParseNumeric(a)) /\ ~IsNone(ParseNumeric(t))
WithinTolerance(a, p) ==
    /\ BothNumeric(a, p.trigger_value)
    /\ AbsDifferenceWithin(ParseNumeric(a)[1], ParseNumeric(p.trigger_value)[1],
                           p.trigger_tolerance)
EqualAsText(a, p) ==
    /\ ~BothNumeric(a, p.trigger_value)
    /\ Lower(Strip(a)) = Lower(Strip(p.trigger_value))

\* the positions of the patterns of the queried checkpoint that match the answer
Candidates ==
    {i \in 1..Len(patterns) :
        /\ patterns[i].checkpoint_id = Get(query).checkpoint_id
        /\ \/ WithinTolerance(Get(query).student_answer, patterns[i])
           \/ EqualAsText(Get(query).student_answer, patterns[i])}

-----------------------------------------------------------------------------
(* Concept.get_prerequisite_chain, statement by statement *)

Range(f) == {f[i] : i \in DOMAIN f}

\* an ordered prerequisite list: no concept twice (the edge table's primary key)
PrereqLists ==
    {q \in UNION {[1..n -> ConceptIds] : n \in 0..MaxPrereqs} :
        \A i, j \in 1..Len(q) : q[i] = q[j] => i = j}

Graphs == [ConceptIds -> PrereqLists]

Top == stack[Len(stack)]
Caller == SubSeq(stack, 1, Len(stack) - 1)
SetTop(f) == [stack EXCEPT ![Len(stack)] = f]

\* "if concept.id in visited", never true
AlreadyVisitedNever(c) == FALSE

\* "if concept.id in visited"
AlreadyVisited(c) == c \in visited

\* "if prereq.id not in {c.id for c in chain}" taken as always true
NotYetInChainAlways(c) == TRUE

\* "if prereq.id not in {c.id for c in chain}"
NotYetInChain(c) == \A i \in 1..Len(chain) : chain[i] # c

\* the call concept.get_prerequisite_chain(): visited = set(); chain = []; _dfs(self)
GetPrerequisiteChain(c) ==
    /\ pc # "run"
    /\ root' = Some(c)
    /\ visited' = {}
    /\ chain' = <<>>
    /\ stack' = <<[node |-> c, i |-> 0, st |-> "enter"]>>
    /\ pc' = "run"
    /\ UNCHANGED <<diagnosisVars, classifyVars, sessionVars, answerVars, missingVars, pathVars, concVars, prerequisites, patterns, matchVars, evalVars>>

\* a return of _dfs; the outermost return ends get_prerequisite_chain
Return ==
    /\ stack' = Caller
    /\ pc' = IF Len(stack) = 1 THEN "done" ELSE "run"

\* entry of _dfs(concept): return if visited, else visited.add and start the loop
DfsEnter ==
    /\ pc = "run"
    /\ Top.st = "enter"
    /\ IF AlreadyVisited(Top.node)
       THEN /\ Return
            /\ UNCHANGED visited
       ELSE /\ visited' = visited \cup {Top.node}
            /\ stack' = SetTop([Top EXCEPT !.i = 1, !.st = "loop"])
            /\ pc' = "run"
    /\ UNCHANGED <<diagnosisVars, classifyVars, sessionVars, answerVars, missingVars, pathVars, concVars, prerequisites, root, chain, patterns, matchVars, evalVars>>

\* loop body, first statement: the recursive call _dfs(prereq)
DfsCall ==
    /\ pc = "run"
    /\ Top.st = "loop"
    /\ Top.i <= Len(prerequisites[Top.node])
    /\ stack' = Append(SetTop([Top EXCEPT !.st = "ret"]),
                       [node |-> prerequisites[Top.node][Top.i], i |-> 0, st |-> "enter"])
    /\ UNCHANGED <<diagnosisVars, classifyVars, sessionVars, answerVars, missingVars, pathVars, concVars, prerequisites, root, visited, chain, pc, patterns, matchVars, evalVars>>

\* loop body, second statement: append prereq unless the chain holds it
DfsAppend ==
    /\ pc = "run"
    /\ Top.st = "ret"
    /\ LET prereq == prerequisites[Top.node][Top.i]
       IN  chain' = IF NotYetInChain(prereq) THEN Append(chain, prereq) ELSE chain
    /\ stack' = SetTop([Top EXCEPT !.i = @ + 1, !.st = "loop"])
    /\ UNCHANGED <<diagnosisVars, classifyVars, sessionVars, answerVars, missingVars, pathVars, concVars, prerequisites, root, visited, pc, patterns, matchVars, evalVars>>

\* the loop is exhausted: _dfs returns
DfsReturn ==
    /\ pc = "run"
    /\ Top.st = "loop"
    /\ Top.i > Len(prerequisites[Top.node])
    /\ Return
    /\ UNCHANGED <<diagnosisVars, classifyVars, sessionVars, answerVars, missingVars, pathVars, concVars, prerequisites, root, visited, chain, patterns, matchVars, evalVars>>

DfsStep == DfsEnter \/ DfsCall \/ DfsAppend \/ DfsReturn

InitChain ==
    /\ prerequisites \in Graphs
    /\ patterns = <<>>
    /\ checkpoint = NoCheckpoint
    /\ ChainIdle
    /\ MatchIdle
    /\ EvalIdle
    /\ ConcIdle
    /\ PathIdle
    /\ MissingIdle
    /\ AnswerIdle
    /\ ClassifyIdle
    /\ DiagnosisIdle
    /\ SessionIdle

NextChain ==
    \/ \E c \in ConceptIds : GetPrerequisiteChain(c)
    \/ DfsStep

\* the interpreter runs a started call to its end
SpecChain == InitChain /\ [][NextChain]_vars /\ WF_vars(DfsStep)

-----------------------------------------------------------------------------
(* Concept.get_prerequisite_chain as a function of the graph *)

RECURSIVE Dfs(_, _), DfsLoop(_, _, _)

\* _dfs(concept) run on the pair st = [visited, chain]
Dfs(c, st) ==
    IF c \in st.visited THEN st
    ELSE DfsLoop(c, 1, [st EXCEPT !.visited = @ \cup {c}])

\* the for loop of _dfs from its i-th iteration on
DfsLoop(c, i, st) ==
    IF i > Len(prerequisites[c]) THEN st
    ELSE LET prereq == prerequisites[c][i]
             s1 == Dfs(prereq, st)
             s2 == IF \A k \in 1..Len(s1.chain) : s1.chain[k] # prereq
                   THEN [s1 EXCEPT !.chain = Append(@, prereq)]
                   ELSE s1
         IN  DfsLoop(c, i + 1, s2)

PrerequisiteChain(c) == Dfs(c, [visited |-> {}, chain |-> <<>>]).chain

-----------------------------------------------------------------------------
(* Claims about get_prerequisite_chain *)

NoDuplicates(q) == \A i, j \in 1..Len(q) : q[i] = q[j] => i = j

\* the steps one frame of the call stack still has to take itself
FrameWork(f) ==
    LET n == Len(prerequisites[f.node])
    IN  CASE f.st = "enter" -> 1
          [] f.st = "loop" -> 3 * (n - f.i + 1) + 1
          [] f.st = "ret" -> 3 * (n - f.i) + 2

RECURSIVE StackWork(_)
StackWork(frames) ==
    IF frames = <<>> THEN 0 ELSE FrameWork(Head(frames)) + StackWork(Tail(frames))

\* a bound on the steps a running traversal has left: every concept not yet
\* visited may still run one full loop, every open frame the rest of its own
Variant ==
    (3 * NumConcepts + 1) * Cardinality(ConceptIds \ visited) + StackWork(stack)

\* C1: on every graph, cyclic or not, a started get_prerequisite_chain(C) never
\* stops half-way, each of its steps lowers a natural-number bound on the steps
\* left, so it ends, and the chain it returns holds no concept id twice.
C1_ChainTerminates ==
    /\ [](pc = "done" => NoDuplicates(chain))
    /\ [](pc = "run" => (ENABLED DfsStep) /\ Variant > 0)
    /\ [][pc = "run" => Variant' < Variant]_vars
    /\ (pc = "run" ~> pc = "done")

\* a concept lies on a prerequisite cycle
RECURSIVE ReachableIn(_, _, _)
ReachableIn(from, to, n) ==
    IF n = 0 THEN FALSE
    ELSE \E k \in 1..Len(prerequisites[from]) :
            \/ prerequisites[from][k] = to
            \/ ReachableIn(prerequisites[from][k], to, n - 1)
OnCycle(c) == ReachableIn(c, c, NumConcepts)

\* C1 witness: a finished traversal from a concept that is on a self-loop and on
\* a cycle through every other concept, whose chain holds every concept
C1_Witness ==
    /\ pc = "done"
    /\ \E k \in 1..Len(prerequisites[Get(root)]) : prerequisites[Get(root)][k] = Get(root)
    /\ \A c \in ConceptIds : OnCycle(c) /\ ReachableIn(Get(root), c, NumConcepts)
    /\ Len(chain) = NumConcepts

\* the step machine and the function agree on every finished call
ChainAgrees == pc = "done" => chain = PrerequisiteChain(Get(root))

-----------------------------------------------------------------------------
(* Data of the evaluation model *)


\* a concept id no concepts row carries
DanglingId == NumConcepts + 1

\* the concept ids a student_progress row may carry (the routes refuse 0 only)
RecordIds == 1..DanglingId

StatusValues == {"not_started", "in_progress", "mastered", "needs_review"}

Attempts == 1..MaxAttempt

\* Concept.name
ConceptName(c) ==
    CASE c = 1 -> "Right Triangles"
      [] c = 2 -> "Trigonometry"
      [] c = 3 -> "Vectors"
      [] OTHER -> "Kinematics"

\* checkpoint.hint: NULL, empty, or authored
Hints == {None, Some(""), Some("Resolve the velocity along x.")}

\* the checkpoint under evaluation: correct_answer "17.3", tolerance 0.01;
\* problem_concept_id is checkpoint.problem.concept_id, the concept being worked
\* on: concept 2 under each hint, concept 3 under the authored hint
Checkpoints ==
    {[id |-> 1, correct_answer |-> S_17_3, tolerance |-> 1, hint |-> h,
      problem_concept_id |-> 2] : h \in Hints}
    \cup {[id |-> 1, correct_answer |-> S_17_3, tolerance |-> 1,
           hint |-> Some("Resolve the velocity along x."), problem_concept_id |-> 3]}

\* the authored error patterns: checkpoint 1 carries one pattern per kind of
\* missing_concept_id (a concept, NULL, 0, an id without a concepts row);
\* checkpoint 2 carries a pattern with the trigger of the first
EvalPatterns ==
    <<[id |-> 1, checkpoint_id |-> 2, trigger_value |-> S_10, trigger_tolerance |-> 50,
       confidence |-> 95, error_type |-> "OTHER_CHECKPOINT",
       diagnosis_text |-> "Belongs to another checkpoint", missing_concept_id |-> Some(1)],
      [id |-> 2, checkpoint_id |-> 1, trigger_value |-> S_10, trigger_tolerance |-> 50,
       confidence |-> 90, error_type |-> "TRIG_FUNCTION_SWAP",
       diagnosis_text |-> "Used sin instead of cos", missing_concept_id |-> Some(2)],
      [id |-> 3, checkpoint_id |-> 1, trigger_value |-> S_12, trigger_tolerance |-> 0,
       confidence |-> 80, error_type |-> "ROUNDING",
       diagnosis_text |-> "Rounded too early", missing_concept_id |-> None],
      [id |-> 4, checkpoint_id |-> 1, trigger_value |-> S_0, trigger_tolerance |-> 0,
       confidence |-> 70, error_type |-> "ZERO_COMPONENT",
       diagnosis_text |-> "Dropped the component", missing_concept_id |-> Some(0)],
      [id |-> 5, checkpoint_id |-> 1, trigger_value |-> S_99, trigger_tolerance |-> 0,
       confidence |-> 60, error_type |-> "UNIT_ERROR",
       diagnosis_text |-> "Mixed the units", missing_concept_id |-> Some(DanglingId)]>>

\* submitted answers: 17.31 is exactly 0.01 from the correct answer; "abc"
\* matches no pattern
EvalAnswers == {S_17_31, S_10, S_12, S_0, S_99, S_abc}

\* prerequisite graphs: 2 needs 1; and 2 needs 1 and 3 while 3 needs 2 (a cycle)
EvalGraphs ==
    {[c \in ConceptIds |-> IF c = 2 THEN <<1>> ELSE <<>>],
     [c \in ConceptIds |-> IF c = 2 THEN <<1, 3>> ELSE IF c = 3 THEN <<2>> ELSE <<>>]}

-----------------------------------------------------------------------------
(* 6.2 Progressive hint strategy *)

\* Python truth of an optional integer: None and 0 are false
Truthy(o) == ~IsNone(o) /\ Get(o) # 0

\* Python truth of an optional text: None and "" are false
TruthyText(o) == ~IsNone(o) /\ Get(o) # ""

\* Concept.query.get(id): the concepts row with that id, if any
ConceptGet(id) == IF id \in ConceptIds THEN Some(id) ELSE None

\* f"This error suggests you need to review {...}."
ReviewText(missing_concept) ==
    "This error suggests you need to review "
    \o (IF ~IsNone(missing_concept) THEN ConceptName(Get(missing_concept))
        ELSE "a prerequisite concept")
    \o "."

\* get_feedback with the attempt-2 branch returning the attempt-1 texts
GetFeedbackNoDiagnosis(cp, pattern, attempt_number) ==
    IF IsNone(pattern)
    THEN [feedback |-> IF TruthyText(cp.hint) THEN Get(cp.hint)
                       ELSE "That's not quite right. Try again.",
          error_type |-> None, missing_concept |-> None, hint |-> cp.hint]
    ELSE LET p == Get(pattern)
             missing_concept ==
                 IF Truthy(p.missing_concept_id) THEN ConceptGet(Get(p.missing_concept_id))
                 ELSE None
         IN  IF attempt_number <= 2
             THEN [feedback |-> IF TruthyText(cp.hint) THEN Get(cp.hint)
                                ELSE "Not quite. Think about what each trig function gives you.",
                   error_type |-> Some(p.error_type),
                   missing_concept |-> missing_concept, hint |-> cp.hint]
             ELSE [feedback |-> ReviewText(missing_concept),
                   error_type |-> Some(p.error_type),
                   missing_concept |-> missing_concept,
                   hint |-> Some("Let's fix this gap before continuing.")]

\* get_feedback with the review message reached from attempt 4 on only
GetFeedbackLateReview(cp, pattern, attempt_number) ==
    IF IsNone(pattern)
    THEN [feedback |-> IF TruthyText(cp.hint) THEN Get(cp.hint)
                       ELSE "That's not quite right. Try again.",
          error_type |-> None, missing_concept |-> None, hint |-> cp.hint]
    ELSE LET p == Get(pattern)
             missing_concept ==
                 IF Truthy(p.missing_concept_id) THEN ConceptGet(Get(p.missing_concept_id))
                 ELSE None
         IN  IF attempt_number = 1
             THEN [feedback |-> IF TruthyText(cp.hint) THEN Get(cp.hint)
                                ELSE "Not quite. Think about what each trig function gives you.",
                   error_type |-> Some(p.error_type),
                   missing_concept |-> missing_concept, hint |-> cp.hint]
             ELSE IF attempt_number <= 3
             THEN [feedback |-> p.diagnosis_text,
                   error_type |-> Some(p.error_type),
                   missing_concept |-> missing_concept, hint |-> Some(p.diagnosis_text)]
             ELSE [feedback |-> ReviewText(missing_concept),
                   error_type |-> Some(p.error_type),
                   missing_concept |-> missing_concept,
                   hint |-> Some("Let's fix this gap before continuing.")]

\* get_feedback(checkpoint, pattern, attempt_number)
GetFeedback(cp, pattern, attempt_number) ==
    IF IsNone(pattern)
    THEN [feedback |-> IF TruthyText(cp.hint) THEN Get(cp.hint)
                       ELSE "That's not quite right. Try again.",
          error_type |-> None, missing_concept |-> None, hint |-> cp.hint]
    ELSE LET p == Get(pattern)
             missing_concept ==
                 IF Truthy(p.missing_concept_id) THEN ConceptGet(Get(p.missing_concept_id))
                 ELSE None
         IN  IF attempt_number = 1
             THEN [feedback |-> IF TruthyText(cp.hint) THEN Get(cp.hint)
                                ELSE "Not quite. Think about what each trig function gives you.",
                   error_type |-> Some(p.error_type),
                   missing_concept |-> missing_concept, hint |-> cp.hint]
             ELSE IF attempt_number = 2
             THEN [feedback |-> p.diagnosis_text,
                   error_type |-> Some(p.error_type),
                   missing_concept |-> missing_concept, hint |-> Some(p.diagnosis_text)]
             ELSE [feedback |-> ReviewText(missing_concept),
                   error_type |-> Some(p.error_type),
                   missing_concept |-> missing_concept,
                   hint |-> Some("Let's fix this gap before continuing.")]

-----------------------------------------------------------------------------
(* 6.3 Backtracking decision logic *)

\* should_backtrack with the threshold one attempt late
ShouldBacktrackLate(pattern, attempt_number, student_id) ==
    IF attempt_number <= 3 THEN FALSE
    ELSE IF IsNone(pattern) THEN FALSE
    ELSE IF IsNone(Get(pattern).missing_concept_id) THEN FALSE
    ELSE TRUE

\* should_backtrack(pattern, attempt_number, student_id)
ShouldBacktrack(pattern, attempt_number, student_id) ==
    IF attempt_number < 3 THEN FALSE
    ELSE IF IsNone(pattern) THEN FALSE
    ELSE IF IsNone(Get(pattern).missing_concept_id) THEN FALSE
    ELSE TRUE

\* StudentProgress.query.filter_by(student_id, concept_id).first(), then
\* "progress.status if progress else 'not_started'"
StatusOf(table, student_id, concept_id) ==
    IF table[<<student_id, concept_id>>] = "no_record" THEN "not_started"
    ELSE table[<<student_id, concept_id>>]

\* the path entries for the concepts of chain from position i on
RECURSIVE PathFrom(_, _, _, _, _)
PathFrom(table, ch, i, student_id, missing_concept_id) ==
    IF i > Len(ch) THEN <<>>
    ELSE <<[concept |-> ch[i], status |-> StatusOf(table, student_id, ch[i]),
            is_target |-> ch[i] = missing_concept_id]>>
         \o PathFrom(table, ch, i + 1, student_id, missing_concept_id)

\* get_backtrack_path that leaves out the concepts the student has mastered
GetBacktrackPathUnmastered(table, student_id, missing_concept_id) ==
    IF IsNone(ConceptGet(missing_concept_id)) THEN <<>>
    ELSE SelectSeq(PathFrom(table, Append(PrerequisiteChain(missing_concept_id),
                                          missing_concept_id),
                            1, student_id, missing_concept_id),
                   LAMBDA e : e.status # "mastered")

\* get_backtrack_path(student_id, missing_concept_id), reading the
\* student_progress table given
GetBacktrackPath(table, student_id, missing_concept_id) ==
    IF IsNone(ConceptGet(missing_concept_id)) THEN <<>>
    ELSE PathFrom(table, Append(PrerequisiteChain(missing_concept_id), missing_concept_id),
                  1, student_id, missing_concept_id)

-----------------------------------------------------------------------------
(* Full checkpoint evaluation *)

\* the dict returned for a correct answer
CorrectResult ==
    [correct |-> TRUE, feedback |-> "Correct! Well done.", backtrack |-> FALSE,
     error_type |-> None, missing_concept |-> None, hint |-> None,
     next_action |-> "continue", confidence |-> 100, backtrack_path |-> None]

\* "if backtrack and pattern and pattern.missing_concept_id"
TakesBacktrackBranch(backtrack, pattern) ==
    backtrack /\ ~IsNone(pattern) /\ Truthy(Get(pattern).missing_concept_id)

\* the only element of a one-element set
Only(S) == CHOOSE x \in S : TRUE

\* the wrong-answer dict with the confidence of a call that matched no pattern
ResultDictNoConfidence(table, pattern, feedback_info, backtrack, student_id) ==
    [correct |-> FALSE,
     feedback |-> feedback_info.feedback,
     error_type |-> feedback_info.error_type,
     missing_concept |-> feedback_info.missing_concept,
     hint |-> feedback_info.hint,
     backtrack |-> backtrack,
     confidence |-> 0,
     next_action |-> IF TakesBacktrackBranch(backtrack, pattern) THEN "backtrack"
                     ELSE "retry",
     backtrack_path |->
         IF TakesBacktrackBranch(backtrack, pattern)
         THEN Some(GetBacktrackPath(table, student_id,
                                    Get(Get(pattern).missing_concept_id)))
         ELSE None]

\* the dict built for a wrong answer from the locals pattern, feedback_info and
\* backtrack; backtrack_path is None when the key is absent
ResultDict(table, pattern, feedback_info, backtrack, student_id) ==
    [correct |-> FALSE,
     feedback |-> feedback_info.feedback,
     error_type |-> feedback_info.error_type,
     missing_concept |-> feedback_info.missing_concept,
     hint |-> feedback_info.hint,
     backtrack |-> backtrack,
     confidence |-> IF ~IsNone(pattern) THEN Get(pattern).confidence ELSE 0,
     next_action |-> IF TakesBacktrackBranch(backtrack, pattern) THEN "backtrack"
                     ELSE "retry",
     backtrack_path |->
         IF TakesBacktrackBranch(backtrack, pattern)
         THEN Some(GetBacktrackPath(table, student_id,
                                    Get(Get(pattern).missing_concept_id)))
         ELSE None]

\* the wrong-answer part of evaluate_checkpoint_answer: each local is computed
\* once and then used
WrongResult(table, cp, student_answer, attempt_number, student_id) ==
    Only(UNION {{ResultDict(table, pattern, feedback_info, backtrack, student_id)
                   : feedback_info \in {GetFeedback(cp, pattern, attempt_number)},
                     backtrack \in {ShouldBacktrack(pattern, attempt_number, student_id)}}
                : pattern \in {MatchErrorPattern(cp.id, student_answer)}})

\* "if progress and progress.status == 'mastered': progress.status = ..." for any status
DowngradeAny(student_id, concept_id) ==
    IF concept_id \in RecordIds /\ progress[<<student_id, concept_id>>] # "no_record"
    THEN [progress EXCEPT ![<<student_id, concept_id>>] = "needs_review"]
    ELSE progress

\* "if progress and progress.status == 'mastered': progress.status = 'needs_review'"
Downgrade(student_id, concept_id) ==
    IF concept_id \in RecordIds /\ progress[<<student_id, concept_id>>] = "mastered"
    THEN [progress EXCEPT ![<<student_id, concept_id>>] = "needs_review"]
    ELSE progress

\* evaluate_checkpoint_answer without the early return for a correct answer
EvaluationResultNoEarlyReturn(table, cp, student_answer, attempt_number, student_id) ==
    WrongResult(table, cp, student_answer, attempt_number, student_id)

\* the dict evaluate_checkpoint_answer returns, reading the table given
EvaluationResult(table, cp, student_answer, attempt_number, student_id) ==
    IF AnswersMatch(student_answer, cp.correct_answer, cp.tolerance)
    THEN CorrectResult
    ELSE WrongResult(table, cp, student_answer, attempt_number, student_id)

\* evaluate_checkpoint_answer(checkpoint, student_answer, attempt_number, student_id),
\* up to its return statement
EvaluateCheckpointAnswer(student_answer, attempt_number, student_id) ==
    /\ IsNone(call)
    /\ call' = Some([student_answer |-> student_answer,
                     attempt_number |-> attempt_number,
                     student_id |-> student_id])
    /\ \E r \in {EvaluationResult(progress, checkpoint, student_answer, attempt_number,
                                  student_id)} :
          /\ result' = Some(r)
          /\ looked_up' = ~r.correct
          /\ progress' =
                IF r.next_action = "backtrack"
                THEN Downgrade(student_id,
                               Get(Get(MatchErrorPattern(checkpoint.id, student_answer))
                                      .missing_concept_id))
                ELSE progress
    /\ UNCHANGED <<diagnosisVars, classifyVars, sessionVars, answerVars, missingVars, pathVars, concVars, prerequisites, patterns, checkpoint, chainVars, matchVars>>

\* "return result": the call is over, its arguments and its result are gone
ReturnResult ==
    /\ ~IsNone(call)
    /\ call' = None
    /\ result' = None
    /\ looked_up' = FALSE
    /\ UNCHANGED <<diagnosisVars, classifyVars, sessionVars, answerVars, missingVars, pathVars, concVars, prerequisites, patterns, checkpoint, progress, chainVars, matchVars>>

\* the rows of student_progress
Records == {k \in DOMAIN progress : progress[k] # "no_record"}

\* POST /api/progress: upsert of one student_progress row; status None is "not
\* given".  Requests are served one at a time: none runs inside an evaluation.
UpdateProgress(student_id, concept_id, status) ==
    /\ IsNone(call)
    /\ progress[<<student_id, concept_id>>] = "no_record" => Cardinality(Records) < MaxRecords
    /\ progress' =
          IF progress[<<student_id, concept_id>>] = "no_record"
          THEN [progress EXCEPT ![<<student_id, concept_id>>] =
                   IF ~IsNone(status) THEN Get(status) ELSE "not_started"]
          ELSE IF ~IsNone(status)
               THEN [progress EXCEPT ![<<student_id, concept_id>>] = Get(status)]
               ELSE progress
    /\ UNCHANGED <<diagnosisVars, classifyVars, sessionVars, answerVars, missingVars, pathVars, concVars, prerequisites, patterns, checkpoint, call, result, looked_up,
                   chainVars, matchVars>>

Init ==
    /\ prerequisites \in EvalGraphs
    /\ patterns = EvalPatterns
    /\ checkpoint \in Checkpoints
    /\ ChainIdle
    /\ MatchIdle
    /\ EvalIdle
    /\ ConcIdle
    /\ PathIdle
    /\ MissingIdle
    /\ AnswerIdle
    /\ ClassifyIdle
    /\ DiagnosisIdle
    /\ SessionIdle

Next ==
    \/ \E a \in EvalAnswers, n \in Attempts, s \in Students :
          EvaluateCheckpointAnswer(a, n, s)
    \/ ReturnResult
    \/ \E s \in Students, c \in RecordIds, st \in {None} \cup {Some(v) : v \in StatusValues} :
          UpdateProgress(s, c, st)

Spec == Init /\ [][Next]_vars

-----------------------------------------------------------------------------
(* Claims about evaluate_checkpoint_answer *)

\* a call has computed its result and not yet returned it
Evaluated == ~IsNone(call)

\* this step is one call of evaluate_checkpoint_answer
EvaluateStep == IsNone(call) /\ ~IsNone(call')

\* the pattern match_error_pattern gives for an answer to the checkpoint
PatternFor(student_answer) == MatchErrorPattern(checkpoint.id, student_answer)

\* the pattern names a missing concept: its missing_concept_id is set
NamesMissingConcept(pattern) ==
    ~IsNone(pattern) /\ ~IsNone(Get(pattern).missing_concept_id)

\* the answer passes the correctness check of the checkpoint
PassesCheck(student_answer) ==
    AnswersMatch(student_answer, checkpoint.correct_answer, checkpoint.tolerance)

\* the entries of a result's backtrack_path, none when the key is absent
PathOf(r) == IF IsNone(r.backtrack_path) THEN <<>> ELSE Get(r.backtrack_path)

\* C4 as stated: a wrong answer gets next_action "backtrack" with a
\* backtrack_path exactly when attempt_number >= 3 and the matched pattern names
\* a missing concept, and next_action "retry" in every other case.
C4_AsStated ==
    (Evaluated /\ ~Get(result).correct) =>
        LET pattern == PatternFor(Get(call).student_answer)
            fires == /\ Get(result).next_action = "backtrack"
                     /\ ~IsNone(Get(result).backtrack_path)
        IN  /\ fires <=> (Get(call).attempt_number >= 3 /\ NamesMissingConcept(pattern))
            /\ ~fires => Get(result).next_action = "retry"

C6_OnlyDowngrade ==
    [][(call' # call) =>
          /\ \A k \in DOMAIN progress :
                progress'[k] # progress[k] =>
                   /\ EvaluateStep
                   /\ Get(result').next_action = "backtrack"
                   /\ NamesMissingConcept(PatternFor(Get(call').student_answer))
                   /\ k = <<Get(call').student_id,
                            Get(Get(PatternFor(Get(call').student_answer))
                                   .missing_concept_id)>>
                   /\ progress[k] = "mastered"
                   /\ progress'[k] = "needs_review"
          /\ (/\ EvaluateStep
              /\ \/ PassesCheck(Get(call').student_answer)
                 \/ Get(call').attempt_number < 3
                 \/ ~NamesMissingConcept(PatternFor(Get(call').student_answer)))
             => progress' = progress]_vars

\* a backtrack has downgraded the student's record while another student's
\* mastered record of the same concept is as it was
C6_Witness ==
    /\ Evaluated
    /\ Get(result).next_action = "backtrack"
    /\ \E i \in DOMAIN PathOf(Get(result)), other \in Students :
          /\ PathOf(Get(result))[i].is_target
          /\ PathOf(Get(result))[i].status = "mastered"
          /\ progress[<<Get(call).student_id, PathOf(Get(result))[i].concept>>]
                = "needs_review"
          /\ other # Get(call).student_id
          /\ progress[<<other, PathOf(Get(result))[i].concept>>] = "mastered"

\* C7: at every attempt number and for every student, an answer that passes
\* the correctness check gets correct = true, next_action "continue",
\* backtrack = false, no error_type, no missing_concept and no backtrack_path,
\* without a pattern lookup and without a change of mastery.
C7_CorrectContinues ==
    [][(EvaluateStep /\ PassesCheck(Get(call').student_answer)) =>
          /\ Get(result').correct = TRUE
          /\ Get(result').next_action = "continue"
          /\ Get(result').backtrack = FALSE
          /\ IsNone(Get(result').error_type)
          /\ IsNone(Get(result').missing_concept)
          /\ IsNone(Get(result').backtrack_path)
          /\ looked_up' = FALSE
          /\ progress' = progress]_vars

\* a first attempt lying exactly on the tolerance was found correct while a
\* mastered record exists
C7_Witness ==
    /\ Evaluated
    /\ Get(call).attempt_number = 1
    /\ Get(call).student_answer = S_17_31
    /\ Get(result).correct
    /\ Get(result).next_action = "continue"
    /\ \E k \in DOMAIN progress : progress[k] = "mastered"

\* the feedback of a first wrong attempt: the checkpoint's hint, or with no hint
\* the fallback sentence of the case (no pattern, pattern)
FirstAttemptFeedback(pattern) ==
    IF TruthyText(checkpoint.hint) THEN Get(checkpoint.hint)
    ELSE IF IsNone(pattern) THEN "That's not quite right. Try again."
    ELSE "Not quite. Think about what each trig function gives you."

\* C8: a wrong answer at attempt 1 gets the checkpoint's hint as feedback, or a
\* generic fallback sentence when the checkpoint has none, with next_action
\* "retry"; at attempt 2 with a matched pattern it gets the pattern's
\* diagnosis_text as feedback and as hint, with next_action "retry".
C8_FeedbackEscalates ==
    (Evaluated /\ ~Get(result).correct) =>
        LET pattern == PatternFor(Get(call).student_answer)
        IN  /\ Get(call).attempt_number = 1 =>
                  /\ Get(result).feedback = FirstAttemptFeedback(pattern)
                  /\ Get(result).next_action = "retry"
            /\ (Get(call).attempt_number = 2 /\ ~IsNone(pattern)) =>
                  /\ Get(result).feedback = Get(pattern).diagnosis_text
                  /\ Get(result).hint = Some(Get(pattern).diagnosis_text)
                  /\ Get(result).next_action = "retry"

\* a second wrong attempt matched a pattern and got its diagnosis, which is not
\* what the hint of the checkpoint says
C8_Witness ==
    /\ Evaluated
    /\ Get(call).attempt_number = 2
    /\ ~Get(result).correct
    /\ ~IsNone(PatternFor(Get(call).student_answer))
    /\ TruthyText(checkpoint.hint)
    /\ Get(result).feedback = Get(PatternFor(Get(call).student_answer)).diagnosis_text
    /\ Get(result).feedback # Get(checkpoint.hint)

\* C9 as stated: a wrong answer at attempt_number >= 3 that gets no backtrack
\* gets next_action "retry" and a feedback different from the one the same
\* answer gets at attempt 1.
C9_AsStated ==
    (/\ Evaluated
     /\ ~Get(result).correct
     /\ Get(call).attempt_number >= 3
     /\ Get(result).next_action # "backtrack")
    => /\ Get(result).next_action = "retry"
       /\ Get(result).feedback
             # FirstAttemptFeedback(PatternFor(Get(call).student_answer))

\* C9: a wrong answer at attempt_number >= 3 that gets no backtrack gets
\* next_action "retry"; with no matched pattern its feedback and hint are those
\* of attempt 1, and with a matched pattern its feedback is the sentence about
\* reviewing a prerequisite concept and its hint the sentence about the gap.
C9_NoBacktrackFeedback ==
    (/\ Evaluated
     /\ ~Get(result).correct
     /\ Get(call).attempt_number >= 3
     /\ Get(result).next_action # "backtrack")
    => /\ Get(result).next_action = "retry"
       /\ IF IsNone(PatternFor(Get(call).student_answer))
          THEN /\ Get(result).feedback = FirstAttemptFeedback(None)
               /\ Get(result).hint = checkpoint.hint
          ELSE /\ Get(result).feedback
                     = "This error suggests you need to review a prerequisite concept."
               /\ Get(result).hint = Some("Let's fix this gap before continuing.")

\* a third wrong attempt that matches no pattern got the feedback of a first one
C9_Witness ==
    /\ Evaluated
    /\ Get(call).attempt_number >= 3
    /\ ~Get(result).correct
    /\ IsNone(PatternFor(Get(call).student_answer))
    /\ Get(result).next_action = "retry"
    /\ Get(result).feedback = FirstAttemptFeedback(None)

\* a result without the status of its backtrack_path entries
WithoutStatuses(r) ==
    [r EXCEPT !.backtrack_path =
        IF IsNone(@) THEN @
        ELSE Some([i \in DOMAIN Get(@) |->
                      [concept |-> Get(@)[i].concept,
                       is_target |-> Get(@)[i].is_target]])]

\* the result the call just made would get if it were made again now
AgainNow ==
    EvaluationResult(progress, checkpoint, Get(call).student_answer,
                     Get(call).attempt_number, Get(call).student_id)

\* C10 as stated: two calls with equal arguments return equal results, the
\* statuses of backtrack_path included; here the call just made and the same
\* call made again.
C10_AsStated == Evaluated => Get(result) = AgainNow

\* C10: the result of a call, the statuses of backtrack_path left out, is the
\* one the same arguments get over an empty mastery table, so any two calls with
\* equal arguments agree on it; each status of backtrack_path is the student's
\* status of that concept when the call is made.
C10_EqualUpToStatuses ==
    [][EvaluateStep =>
          /\ WithoutStatuses(Get(result'))
                = WithoutStatuses(EvaluationResult(NoProgress, checkpoint,
                                                   Get(call').student_answer,
                                                   Get(call').attempt_number,
                                                   Get(call').student_id))
          /\ \A i \in DOMAIN PathOf(Get(result')) :
                PathOf(Get(result'))[i].status
                   = StatusOf(progress, Get(call').student_id,
                              PathOf(Get(result'))[i].concept)]_vars

\* the call just made reports a concept as mastered that the same call made
\* again reports as needing review
C10_Witness ==
    /\ Evaluated
    /\ \E i \in DOMAIN PathOf(Get(result)) :
          /\ i \in DOMAIN PathOf(AgainNow)
          /\ PathOf(Get(result))[i].status = "mastered"
          /\ PathOf(AgainNow)[i].status = "needs_review"
          /\ WithoutStatuses(Get(result)) = WithoutStatuses(AgainNow)

\* the matched pattern carries a missing_concept_id that no concepts row has
NamesAbsentConcept(pattern) ==
    NamesMissingConcept(pattern) /\ Get(Get(pattern).missing_concept_id) \notin ConceptIds

\* C11 as stated: a wrong answer at attempt_number >= 3 whose matched pattern
\* references a concept id that does not exist gets missing_concept null, the
\* next_action of a pattern without missing concept ("retry", no backtrack
\* path) and the generic feedback about reviewing a prerequisite concept.
C11_AsStated ==
    (/\ Evaluated
     /\ ~Get(result).correct
     /\ Get(call).attempt_number >= 3
     /\ NamesAbsentConcept(PatternFor(Get(call).student_answer)))
    => /\ IsNone(Get(result).missing_concept)
       /\ Get(result).next_action = "retry"
       /\ IsNone(Get(result).backtrack_path)
       /\ Get(result).feedback
             = "This error suggests you need to review a prerequisite concept."

\* C12 as stated: a call leaves the student's record of the concept of the
\* checkpoint's problem as it was, whatever the patterns of the checkpoint.
C12_AsStated ==
    [][EvaluateStep =>
          progress'[<<Get(call').student_id, checkpoint.problem_concept_id>>]
             = progress[<<Get(call').student_id, checkpoint.problem_concept_id>>]]_vars

-----------------------------------------------------------------------------
(* SpecConc: evaluate_checkpoint_answer calls served concurrently.  A call  *)
(* reads the student_progress row (lines 217-220) and writes it (lines      *)
(* 221-223) in two steps, between which the other calls may run.            *)

NumCalls == 2
CallIds == 1..NumCalls

\* the arguments of the concurrent calls: a pattern with missing concept 2, one
\* with a missing concept that has no concepts row, one without missing concept
ConcAnswers == {S_10, S_99, S_12}
ConcAttempts == {2, 3}
ConcArguments ==
    [student_answer : ConcAnswers, attempt_number : ConcAttempts, student_id : Students]

\* the student_progress tables the calls may begin on: up to MaxRecords rows,
\* mastered or in progress, for the concepts the patterns name
ConcKeys == Students \X {2, DanglingId}
ConcTables ==
    {t \in [DOMAIN NoProgress -> {"no_record", "mastered", "in_progress"}] :
        /\ \A k \in DOMAIN NoProgress : t[k] # "no_record" => k \in ConcKeys
        /\ Cardinality({k \in ConcKeys : t[k] # "no_record"}) <= MaxRecords}

\* the call reaches the branch of line 213
CallBacktracks(c) ==
    /\ ~AnswersMatch(c.student_answer, checkpoint.correct_answer, checkpoint.tolerance)
    /\ TakesBacktrackBranch(
          ShouldBacktrack(MatchErrorPattern(checkpoint.id, c.student_answer),
                          c.attempt_number, c.student_id),
          MatchErrorPattern(checkpoint.id, c.student_answer))

\* the key (student_id, concept_id) of the query of lines 217-220
CallKey(c) ==
    <<c.student_id,
      Get(Get(MatchErrorPattern(checkpoint.id, c.student_answer)).missing_concept_id)>>

\* "progress and progress.status == 'mastered'" on the row read, any status
RowIsMasteredAny(seen) == seen # "no_record"

\* "progress and progress.status == 'mastered'" on the row read
RowIsMastered(seen) == seen = "mastered"

\* lines 185-220: the call runs up to the query of the row it may downgrade
CallQuery(p) ==
    /\ running[p].at = "start"
    /\ running' =
          IF CallBacktracks(running[p])
          THEN [running EXCEPT ![p].at = "queried", ![p].seen = progress[CallKey(running[p])]]
          ELSE [running EXCEPT ![p].at = "done"]
    /\ UNCHANGED <<diagnosisVars, classifyVars, sessionVars, answerVars, missingVars, pathVars, before, prerequisites, patterns, chainVars, matchVars, evalVars>>

\* lines 221-228: the test of the row read, the write and the commit
CallWrite(p) ==
    /\ running[p].at = "queried"
    /\ running' = [running EXCEPT ![p].at = "done"]
    /\ progress' =
          IF RowIsMastered(running[p].seen)
          THEN [progress EXCEPT ![CallKey(running[p])] = "needs_review"]
          ELSE progress
    /\ UNCHANGED <<diagnosisVars, classifyVars, sessionVars, answerVars, missingVars, pathVars, before, prerequisites, patterns, checkpoint, call, result, looked_up,
                   chainVars, matchVars>>

InitConc ==
    /\ prerequisites = NoGraph
    /\ patterns = EvalPatterns
    /\ checkpoint \in {cp \in Checkpoints : IsNone(cp.hint)}
    /\ ChainIdle
    /\ MatchIdle
    /\ call = None
    /\ result = None
    /\ looked_up = FALSE
    /\ PathIdle
    /\ MissingIdle
    /\ AnswerIdle
    /\ ClassifyIdle
    /\ DiagnosisIdle
    /\ SessionIdle
    /\ progress \in ConcTables
    /\ before = progress
    /\ running \in [CallIds -> {[student_answer |-> a.student_answer,
                                 attempt_number |-> a.attempt_number,
                                 student_id |-> a.student_id,
                                 at |-> "start", seen |-> "no_record"]
                                  : a \in ConcArguments}]

NextConc ==
    \/ \E p \in CallIds : CallQuery(p)
    \/ \E p \in CallIds : CallWrite(p)

\* every call that has begun is run to its end
SpecConc == InitConc /\ [][NextConc]_vars /\ WF_vars(NextConc)

\* lines 217-224 run without interruption on a table
DowngradeOf(table, key) ==
    IF table[key] = "mastered" THEN [table EXCEPT ![key] = "needs_review"] ELSE table

\* the table one call leaves when it runs alone
AfterCall(table, c) ==
    IF CallBacktracks(c) THEN DowngradeOf(table, CallKey(c)) ELSE table

\* the table left by the calls order[i], order[i+1], ... run one after the other
RECURSIVE AfterCalls(_, _, _)
AfterCalls(table, order, i) ==
    IF i > Len(order) THEN table
    ELSE AfterCalls(AfterCall(table, running[order[i]]), order, i + 1)

\* the orders in which the calls can be run one after the other
Orders == {o \in [CallIds -> CallIds] : \A i, j \in CallIds : o[i] = o[j] => i = j}

AllDone == DOMAIN running = CallIds /\ \A p \in CallIds : running[p].at = "done"

\* C13: when concurrent calls, whose row reads and row writes interleave in
\* any way, have all ended, the mastery table is the one left by running them
\* one after the other in any order; and the downgrade of a call applied twice
\* leaves the table it leaves applied once.
C13_InterleavingIndependent ==
    AllDone =>
       /\ \A o \in Orders : progress = AfterCalls(before, o, 1)
       /\ \A p \in CallIds :
             AfterCall(AfterCall(before, running[p]), running[p])
                = AfterCall(before, running[p])

\* two calls for the same student and concept have both read the row as
\* mastered before either wrote it, and both have ended
C13_Witness ==
    /\ AllDone
    /\ \E p, q \in CallIds :
          /\ p # q
          /\ CallBacktracks(running[p]) /\ CallBacktracks(running[q])
          /\ CallKey(running[p]) = CallKey(running[q])
          /\ running[p].seen = "mastered" /\ running[q].seen = "mastered"
          /\ before[CallKey(running[p])] = "mastered"
          /\ progress[CallKey(running[p])] = "needs_review"

-----------------------------------------------------------------------------
(* Further claims about get_prerequisite_chain *)

\* the concepts of a list
Elements(q) == {q[i] : i \in 1..Len(q)}

\* C14 as stated: on every graph, cyclic or not, the concept the chain was
\* asked for is not an element of its own chain.
C14_AsStated == pc = "done" => Get(root) \notin Elements(chain)

\* the direct prerequisites of a concept
PrereqsOf(c) == Elements(prerequisites[c])

\* no concept is its own transitive prerequisite
Acyclic == \A c \in ConceptIds : ~OnCycle(c)

\* C15: on an acyclic graph the chain of C holds exactly the concepts reachable
\* from C over one or more prerequisite edges, and every concept of the chain
\* comes after each of its own prerequisites.
C15_AllPrerequisitesDeepestFirst ==
    (pc = "done" /\ Acyclic) =>
        /\ Elements(chain) = {x \in ConceptIds : ReachableIn(Get(root), x, NumConcepts)}
        /\ \A i, j \in 1..Len(chain) : chain[j] \in PrereqsOf(chain[i]) => j < i

\* a finished chain on an acyclic graph in which a prerequisite of the concept
\* is also a prerequisite of another of its prerequisites, and comes first
C15_Witness ==
    /\ pc = "done"
    /\ Acyclic
    /\ Len(chain) = 2
    /\ chain[1] \in PrereqsOf(chain[2])
    /\ chain[1] \in PrereqsOf(Get(root))
    /\ chain[2] \in PrereqsOf(Get(root))

-----------------------------------------------------------------------------
(* SpecPath: get_backtrack_path called directly, for every student and every *)
(* missing concept id, over small graphs and mastery tables                  *)

\* the graphs in which a concept has at most one prerequisite (chains, self-loops,
\* cycles of two and three concepts), and the two graphs of the evaluation
PathGraphs == {g \in Graphs : \A c \in ConceptIds : Len(g[c]) <= 1} \cup EvalGraphs

\* the student_progress tables of up to MaxRecords rows for existing concepts
PathTables ==
    UNION {{[k \in DOMAIN NoProgress |-> IF k \in K THEN f[k] ELSE "no_record"]
              : f \in [K -> StatusValues]}
           : K \in {K \in SUBSET (Students \X ConceptIds) : Cardinality(K) <= MaxRecords}}

\* get_backtrack_path that also downgrades the target as evaluate_checkpoint_answer does
GetBacktrackPathCallDowngrading(student_id, missing_concept_id) ==
    /\ IsNone(path_query)
    /\ path_query' = Some([student_id |-> student_id,
                           missing_concept_id |-> missing_concept_id])
    /\ path' = GetBacktrackPath(progress, student_id, missing_concept_id)
    /\ progress' = Downgrade(student_id, missing_concept_id)
    /\ UNCHANGED <<diagnosisVars, classifyVars, sessionVars, answerVars, missingVars, concVars, prerequisites, patterns, chainVars, matchVars, checkpoint,
                   call, result, looked_up>>

\* get_backtrack_path(student_id, missing_concept_id), up to its return statement
GetBacktrackPathCall(student_id, missing_concept_id) ==
    /\ IsNone(path_query)
    /\ path_query' = Some([student_id |-> student_id,
                           missing_concept_id |-> missing_concept_id])
    /\ path' = GetBacktrackPath(progress, student_id, missing_concept_id)
    /\ UNCHANGED <<diagnosisVars, classifyVars, sessionVars, answerVars, missingVars, concVars, prerequisites, patterns, chainVars, matchVars, evalVars>>

\* "return path": the call is over
ReturnPath ==
    /\ ~IsNone(path_query)
    /\ path_query' = None
    /\ path' = <<>>
    /\ UNCHANGED <<diagnosisVars, classifyVars, sessionVars, answerVars, missingVars, concVars, prerequisites, patterns, chainVars, matchVars, evalVars>>

InitPath ==
    /\ prerequisites \in PathGraphs
    /\ patterns = <<>>
    /\ checkpoint = NoCheckpoint
    /\ ChainIdle
    /\ MatchIdle
    /\ call = None
    /\ result = None
    /\ looked_up = FALSE
    /\ progress \in PathTables
    /\ ConcIdle
    /\ PathIdle
    /\ MissingIdle
    /\ AnswerIdle
    /\ ClassifyIdle
    /\ DiagnosisIdle
    /\ SessionIdle

NextPath ==
    \/ \E s \in Students, c \in RecordIds : GetBacktrackPathCall(s, c)
    \/ ReturnPath

SpecPath == InitPath /\ [][NextPath]_vars

\* C16: for an existing concept M the path of (S, M) is the prerequisite chain
\* of M in chain order followed by M; each entry carries S's current status of
\* its concept, "not_started" without a record; is_target is true exactly on
\* the entries of concept M.
C16_PathIsChainThenTarget ==
    (~IsNone(path_query) /\ Get(path_query).missing_concept_id \in ConceptIds) =>
        LET S == Get(path_query).student_id
            M == Get(path_query).missing_concept_id
            ch == PrerequisiteChain(M)
        IN  /\ Len(path) = Len(ch) + 1
            /\ \A i \in 1..Len(ch) : path[i].concept = ch[i]
            /\ path[Len(path)].concept = M
            /\ \A i \in 1..Len(path) :
                  /\ path[i].status =
                        IF progress[<<S, path[i].concept>>] \in StatusValues
                        THEN progress[<<S, path[i].concept>>]
                        ELSE "not_started"
                  /\ path[i].is_target <=> path[i].concept = M

\* a path of three entries: a mastered prerequisite, a prerequisite without
\* record, and the target last
C16_Witness ==
    /\ ~IsNone(path_query)
    /\ Len(path) = 3
    /\ path[1].status = "mastered" /\ ~path[1].is_target
    /\ path[2].status = "not_started" /\ ~path[2].is_target
    /\ progress[<<Get(path_query).student_id, path[2].concept>>] = "no_record"
    /\ path[3].is_target
    /\ path[3].concept = Get(path_query).missing_concept_id

\* this step is one call of get_backtrack_path
PathStep == IsNone(path_query) /\ ~IsNone(path_query')

-----------------------------------------------------------------------------
(* SpecMissing: Concept.get_missing_prerequisites called directly *)

\* get_missing_prerequisites that counts a concept as missing only without a record
GetMissingPrerequisitesNoRecord(table, c, student_id) ==
    SelectSeq(PrerequisiteChain(c), LAMBDA x : table[<<student_id, x>>] = "no_record")

\* concept.get_missing_prerequisites(student_id), reading the student_progress
\* table given: the chain without the concepts of the student's mastered rows
GetMissingPrerequisites(table, c, student_id) ==
    IF PrerequisiteChain(c) = <<>> THEN <<>>
    ELSE LET mastered == {x \in Elements(PrerequisiteChain(c)) :
                             table[<<student_id, x>>] = "mastered"}
         IN  SelectSeq(PrerequisiteChain(c), LAMBDA x : x \notin mastered)

\* the call, up to its return statement
GetMissingPrerequisitesCall(c, student_id) ==
    /\ IsNone(missing_query)
    /\ missing_query' = Some([concept |-> c, student_id |-> student_id])
    /\ missing' = GetMissingPrerequisites(progress, c, student_id)
    /\ UNCHANGED <<diagnosisVars, classifyVars, sessionVars, answerVars, pathVars, concVars, prerequisites, patterns, chainVars, matchVars,
                   evalVars>>

\* the return statement: the call is over
ReturnMissing ==
    /\ ~IsNone(missing_query)
    /\ missing_query' = None
    /\ missing' = <<>>
    /\ UNCHANGED <<diagnosisVars, classifyVars, sessionVars, answerVars, pathVars, concVars, prerequisites, patterns, chainVars, matchVars,
                   evalVars>>

NextMissing ==
    \/ \E c \in ConceptIds, s \in Students : GetMissingPrerequisitesCall(c, s)
    \/ ReturnMissing

SpecMissing == InitPath /\ [][NextMissing]_vars

\* q holds elements of r only, each once, in the order they have in r
SubsequenceOf(q, r) ==
    /\ \A i \in 1..Len(q) : \E k \in 1..Len(r) : r[k] = q[i]
    /\ \A i, j \in 1..Len(q) :
          i < j => \E k, l \in 1..Len(r) : k < l /\ r[k] = q[i] /\ r[l] = q[j]

\* C18: get_missing_prerequisites(C, S) holds exactly the concepts of the chain
\* of C for which S has no record or a record that is not "mastered", in chain
\* order; it is empty when the chain is empty.
C18_MissingIsChainNotMastered ==
    ~IsNone(missing_query) =>
        LET S == Get(missing_query).student_id
            ch == PrerequisiteChain(Get(missing_query).concept)
        IN  /\ Elements(missing)
                  = {x \in Elements(ch) :
                        progress[<<S, x>>] \in {"no_record", "not_started",
                                                "in_progress", "needs_review"}}
            /\ SubsequenceOf(missing, ch)
            /\ ch = <<>> => missing = <<>>

\* of a chain of two concepts the mastered one was left out and the one under
\* review kept
C18_Witness ==
    /\ ~IsNone(missing_query)
    /\ Len(PrerequisiteChain(Get(missing_query).concept)) = 2
    /\ Len(missing) = 1
    /\ progress[<<Get(missing_query).student_id, missing[1]>>] = "needs_review"
    /\ \E x \in Elements(PrerequisiteChain(Get(missing_query).concept)) :
          progress[<<Get(missing_query).student_id, x>>] = "mastered"

-----------------------------------------------------------------------------
(* Further claims about evaluate_checkpoint_answer *)

\* C19: every wrong answer, at every attempt number, can be evaluated and
\* gets correct = false with the error_type and confidence of the pattern
\* match_error_pattern selects, or with error_type null, missing_concept null
\* and confidence 0 when it matches no pattern.
C19_WrongAnswerIsResult ==
    /\ IsNone(call) =>
          \A a \in EvalAnswers, n \in Attempts, s \in Students :
             ~PassesCheck(a) =>
                /\ EvaluationResult(progress, checkpoint, a, n, s).correct = FALSE
                /\ EvaluationResult(progress, checkpoint, a, n, s).next_action
                      \in {"retry", "backtrack"}
    /\ (Evaluated /\ ~PassesCheck(Get(call).student_answer)) =>
          /\ Get(result).correct = FALSE
          /\ IF IsNone(PatternFor(Get(call).student_answer))
             THEN /\ IsNone(Get(result).error_type)
                  /\ IsNone(Get(result).missing_concept)
                  /\ Get(result).confidence = 0
             ELSE /\ Get(result).error_type
                        = Some(Get(PatternFor(Get(call).student_answer)).error_type)
                  /\ Get(result).confidence
                        = Get(PatternFor(Get(call).student_answer)).confidence

\* a late attempt whose answer is the trigger of the sin/cos pattern reports
\* that pattern's error_type and confidence
C19_Witness ==
    /\ Evaluated
    /\ Get(call).attempt_number >= 3
    /\ Get(call).student_answer = S_10
    /\ Get(result).correct = FALSE
    /\ Get(result).error_type = Some("TRIG_FUNCTION_SWAP")
    /\ Get(result).confidence = 90

-----------------------------------------------------------------------------
(* SpecAnswers: _answers_match over every pair of texts and every tolerance *)

InitAnswers ==
    /\ patterns = <<>>
    /\ prerequisites = NoGraph
    /\ checkpoint = NoCheckpoint
    /\ ChainIdle
    /\ MatchIdle
    /\ EvalIdle
    /\ ConcIdle
    /\ PathIdle
    /\ MissingIdle
    /\ AnswerIdle
    /\ ClassifyIdle
    /\ DiagnosisIdle
    /\ SessionIdle

\* a call _answers_match(student_answer, correct_answer, tolerance)
AnswersMatchCall(student_answer, correct_answer, tolerance) ==
    /\ answer_query' = Some([student_answer |-> student_answer,
                             correct_answer |-> correct_answer,
                             tolerance |-> tolerance])
    /\ answer_match' = AnswersMatch(student_answer, correct_answer, tolerance)
    /\ UNCHANGED <<diagnosisVars, classifyVars, sessionVars, missingVars, pathVars, concVars, prerequisites, patterns, chainVars,
                   matchVars, evalVars>>

NextAnswers ==
    \E s \in Texts, c \in Texts, t \in Tolerances : AnswersMatchCall(s, c, t)

SpecAnswers == InitAnswers /\ [][NextAnswers]_vars

-----------------------------------------------------------------------------
(* Claims about _answers_match *)

\* the decimal value, in hundredths, of the leading numeric token of a text that parses
DecimalOf(text) == Get(ParseNumeric(text)).h

\* |a - b| of two decimals in hundredths
Distance(a, b) == IF a < b THEN b - a ELSE a - b

\* C20 as stated: when the submitted and the correct answer both parse as numbers
\* the check passes exactly when the distance of the two numbers is at most the
\* tolerance, whatever the texts are as strings; when one of them does not parse
\* it passes exactly when the texts are equal after strip() and lower().
C20_AsStated ==
    ~IsNone(answer_query) =>
        LET q == Get(answer_query)
        IN  IF BothNumeric(q.student_answer, q.correct_answer)
            THEN answer_match <=>
                    Distance(DecimalOf(q.student_answer), DecimalOf(q.correct_answer))
                        <= q.tolerance
            ELSE answer_match <=>
                    Lower(Strip(q.student_answer)) = Lower(Strip(q.correct_answer))

\* C27 as stated: in every result of evaluate_checkpoint_answer the backtrack
\* flag is true exactly when next_action is "backtrack", and next_action is
\* "backtrack" exactly when the result has a backtrack_path key.
C27_AsStated ==
    Evaluated =>
        /\ Get(result).backtrack <=> Get(result).next_action = "backtrack"
        /\ Get(result).next_action = "backtrack" <=> ~IsNone(Get(result).backtrack_path)

\* C28 as stated: for an existing concept M, on every prerequisite graph, the
\* path of get_backtrack_path holds no concept twice and has exactly one entry
\* with is_target true, its last one.
C28_AsStated ==
    (~IsNone(path_query) /\ Get(path_query).missing_concept_id \in ConceptIds) =>
        /\ \A i, j \in 1..Len(path) : path[i].concept = path[j].concept => i = j
        /\ \A i \in 1..Len(path) : path[i].is_target <=> i = Len(path)

-----------------------------------------------------------------------------
(***************************************************************************)
(* SpecSession: routes/sessions.py on one session of the in-memory store.  *)
(* The session was created by start_session for student 1 on a problem of  *)
(* concept 1 whose steps, in step_number order, have the ids 1..NumSteps.  *)
(* Requests run concurrently (the store is a dict shared by the threads of *)
(* the server): each handler is cut where it reads or writes the store.    *)
(***************************************************************************)

NumSteps == 2
NumRequests == 3
MaxAnswers == 2

StepIds == 1..NumSteps
RequestIds == 1..NumRequests

\* the (student_id, concept_id) of the session
SessionKey == <<1, 1>>

\* create_session: the dict stored under the session id
NewSession ==
    [status |-> "active", current_checkpoint_index |-> 0, attempts_log |-> <<>>]

\* a request that has not arrived
NoRequest ==
    [kind |-> "none", pc |-> "new", step_id |-> 0, was_correct |-> FALSE,
     attempt_number |-> 0, answers |-> <<>>, after_completion |-> FALSE]

\* the answers arrays of complete-mission: step ids, 0 for a step that is not
\* one of the problem's
AnswerLists == UNION {[1..n -> 0..NumSteps] : n \in 0..MaxAnswers}

\* get_attempts_for_checkpoint(session_id, step_id)
GetAttemptsForCheckpoint(step_id) ==
    Cardinality({i \in 1..Len(Get(session).attempts_log) :
                    Get(session).attempts_log[i].step_id = step_id})

\* log_attempt(session_id, attempt)
LogAttempt(s, step_id, attempt_number) ==
    [s EXCEPT !.attempts_log =
        Append(@, [step_id |-> step_id, attempt_number |-> attempt_number])]

\* _update_student_progress: the status column after the upsert
ProgressAfterSession ==
    IF progress[SessionKey] \in {"no_record", "not_started"}
    THEN [progress EXCEPT ![SessionKey] = "in_progress"]
    ELSE progress

\* request r arrives: requests are numbered in their order of arrival
Arrives(r) ==
    /\ requests[r].kind = "none"
    /\ \A q \in 1..(r - 1) : requests[q].kind # "none"

\* submit_answer, lines 107-135: the session is read and the request validated;
\* was_correct is selected_option.is_correct; step 0 is an id with no Step row
SubmitBegin(r, step_id, was_correct) ==
    /\ Arrives(r)
    /\ requests' =
          [requests EXCEPT ![r] =
              [@ EXCEPT !.kind = "submit",
                        !.after_completion = Get(session).status = "completed",
                        !.step_id = step_id,
                        !.was_correct = was_correct,
                        !.pc = IF Get(session).status = "completed" THEN "rejected"
                               ELSE IF step_id \notin StepIds THEN "rejected"
                               ELSE "validated"]]
    /\ UNCHANGED <<session, attempts, progress>>
    /\ UNCHANGED <<diagnosisVars, classifyVars, answerVars, missingVars, pathVars, concVars,
                   prerequisites, patterns, chainVars, matchVars, checkpoint, call, result,
                   looked_up>>

\* line 138: attempt_number = get_attempts_for_checkpoint(session_id, step_id) + 1
SubmitCount(r) ==
    /\ requests[r].kind = "submit" /\ requests[r].pc = "validated"
    /\ requests' =
          [requests EXCEPT ![r] =
              [@ EXCEPT !.attempt_number = GetAttemptsForCheckpoint(requests[r].step_id) + 1,
                        !.pc = "counted"]]
    /\ UNCHANGED <<session, attempts, progress>>
    /\ UNCHANGED <<diagnosisVars, classifyVars, answerVars, missingVars, pathVars, concVars,
                   prerequisites, patterns, chainVars, matchVars, checkpoint, call, result,
                   looked_up>>

\* lines 139-145: log_attempt
SubmitLog(r) ==
    /\ requests[r].kind = "submit" /\ requests[r].pc = "counted"
    /\ session' = Some(LogAttempt(Get(session), requests[r].step_id,
                                  requests[r].attempt_number))
    /\ requests' = [requests EXCEPT ![r] = [@ EXCEPT !.pc = "logged"]]
    /\ UNCHANGED <<attempts, progress>>
    /\ UNCHANGED <<diagnosisVars, classifyVars, answerVars, missingVars, pathVars, concVars,
                   prerequisites, patterns, chainVars, matchVars, checkpoint, call, result,
                   looked_up>>

\* lines 147-175: a correct answer on the last step completes the session and
\* upserts the progress row, on another step it moves the session on
SubmitFinish(r) ==
    /\ requests[r].kind = "submit" /\ requests[r].pc = "logged"
    /\ requests' = [requests EXCEPT ![r] = [@ EXCEPT !.pc = "done"]]
    /\ IF ~requests[r].was_correct
       THEN UNCHANGED <<session, attempts, progress>>
       ELSE IF requests[r].step_id >= NumSteps
       THEN /\ session' = Some([Get(session) EXCEPT !.status = "completed"])
            /\ attempts' = attempts + 1
            /\ progress' = ProgressAfterSession
       ELSE /\ session' = Some([Get(session) EXCEPT
                                   !.current_checkpoint_index = requests[r].step_id])
            /\ UNCHANGED <<attempts, progress>>
    /\ UNCHANGED <<diagnosisVars, classifyVars, answerVars, missingVars, pathVars, concVars,
                   prerequisites, patterns, chainVars, matchVars, checkpoint, call, result,
                   looked_up>>

\* complete_mission, lines 186-202: the session is looked up and the answers read
CompleteBegin(r, answers) ==
    /\ Arrives(r)
    /\ requests' =
          [requests EXCEPT ![r] =
              [@ EXCEPT !.kind = "complete",
                        !.after_completion = Get(session).status = "completed",
                        !.answers = answers,
                        !.pc = IF answers = <<>> THEN "rejected" ELSE "looping"]]
    /\ UNCHANGED <<session, attempts, progress>>
    /\ UNCHANGED <<diagnosisVars, classifyVars, answerVars, missingVars, pathVars, concVars,
                   prerequisites, patterns, chainVars, matchVars, checkpoint, call, result,
                   looked_up>>

\* lines 207-238: one pass of the loop over the answers
CompleteAnswer(r) ==
    /\ requests[r].kind = "complete" /\ requests[r].pc = "looping"
    /\ requests[r].answers # <<>>
    /\ session' =
          IF Head(requests[r].answers) \in StepIds
          THEN Some(LogAttempt(Get(session), Head(requests[r].answers), 1))
          ELSE session
    /\ requests' = [requests EXCEPT ![r] = [@ EXCEPT !.answers = Tail(@)]]
    /\ UNCHANGED <<attempts, progress>>
    /\ UNCHANGED <<diagnosisVars, classifyVars, answerVars, missingVars, pathVars, concVars,
                   prerequisites, patterns, chainVars, matchVars, checkpoint, call, result,
                   looked_up>>

\* lines 240-270: complete_session and _update_student_progress
CompleteFinish(r) ==
    /\ requests[r].kind = "complete" /\ requests[r].pc = "looping"
    /\ requests[r].answers = <<>>
    /\ session' = Some([Get(session) EXCEPT !.status = "completed"])
    /\ attempts' = attempts + 1
    /\ progress' = ProgressAfterSession
    /\ requests' = [requests EXCEPT ![r] = [@ EXCEPT !.pc = "done"]]
    /\ UNCHANGED <<diagnosisVars, classifyVars, answerVars, missingVars, pathVars, concVars,
                   prerequisites, patterns, chainVars, matchVars, checkpoint, call, result,
                   looked_up>>

InitSession ==
    /\ prerequisites = NoGraph
    /\ patterns = <<>>
    /\ checkpoint = NoCheckpoint
    /\ ChainIdle
    /\ MatchIdle
    /\ \E status \in {"no_record", "not_started", "mastered"} :
          progress = [NoProgress EXCEPT ![SessionKey] = status]
    /\ call = None
    /\ result = None
    /\ looked_up = FALSE
    /\ ConcIdle
    /\ PathIdle
    /\ MissingIdle
    /\ AnswerIdle
    /\ ClassifyIdle
    /\ DiagnosisIdle
    /\ session = Some(NewSession)
    /\ requests = [r \in RequestIds |-> NoRequest]
    /\ attempts = 0

NextSession ==
    \E r \in RequestIds :
        \/ \E step_id \in 0..NumSteps, was_correct \in BOOLEAN :
              SubmitBegin(r, step_id, was_correct)
        \/ SubmitCount(r)
        \/ SubmitLog(r)
        \/ SubmitFinish(r)
        \/ \E answers \in AnswerLists : CompleteBegin(r, answers)
        \/ CompleteAnswer(r)
        \/ CompleteFinish(r)

SpecSession == InitSession /\ [][NextSession]_vars

-----------------------------------------------------------------------------
(* Claims about the session routes *)

\* the attempt numbers logged for a step, in log order
LoggedNumbers(step_id) ==
    LET entries == SelectSeq(Get(session).attempts_log, LAMBDA a : a.step_id = step_id)
    IN  [k \in 1..Len(entries) |-> entries[k].attempt_number]

\* C29 as stated: while only submit requests have been made on the session,
\* in whatever way they interleave, the k-th attempt logged for a step
\* carries attempt_number k, so no two attempts of a step carry the same number.
C29_AsStated ==
    (\A r \in RequestIds : requests[r].kind # "complete") =>
        \A step_id \in StepIds :
            \A k \in 1..Len(LoggedNumbers(step_id)) : LoggedNumbers(step_id)[k] = k

\* C30 as stated: a request that arrives when the session is completed is
\* rejected, and none of its steps changes the session, the attempts counter
\* or the progress row.
C30_AsStated ==
    [][\A r \in RequestIds :
          (requests'[r] # requests[r] /\ requests'[r].after_completion) =>
              /\ requests'[r].pc = "rejected"
              /\ session' = session
              /\ attempts' = attempts
              /\ progress' = progress]_vars

-----------------------------------------------------------------------------
(* Regular expressions (the re module, as sikshya_engine.py uses it).

   An expression is a sequence of nodes.  The expressions below are the parse
   trees of the patterns of the source under re.IGNORECASE | re.UNICODE, every
   character class written as the set of characters of Alphabet it matches. *)

\* one character out of s (a literal, a class, a negated class, the dot)
In(s) == [t |-> "in", s |-> s]
\* \b
Boundary == [t |-> "b"]
\* r repeated lo to hi times (hi = None: no upper limit)
Repeat(lo, hi, r) == [t |-> "rep", lo |-> lo, hi |-> hi, r |-> r]
\* a group, or the alternatives of a|b
Branch(rs) == [t |-> "alt", rs |-> rs]

\* the characters of the normalized texts of the model; a character outside ASCII is
\* written by its name (deg: the degree sign)
Alphabet ==
    {" ", "(", ")", ",", "-", "/", "0", "1", "2", "3", "6", "=", "a", "c", "d", "e", "f", "g", "h", "i", "l", "m", "n", "o", "p", "r", "s", "t", "u", "v", "w", "x", "y", "deg"}

\* the characters \w matches
WordChars ==
    {"0", "1", "2", "3", "6", "a", "c", "d", "e", "f", "g", "h", "i", "l", "m", "n", "o", "p", "r", "s", "t", "u", "v", "w", "x", "y"}

\* _h1_component_swap: its two expressions
H1_COMPONENT_SWAP ==
    <<\* ax\s*=\s*[^,\n]*\bsin\b[^,\n]*,[^,\n]*ay\s*=\s*[^,\n]*\bcos\b
      <<In({"a"}),
        In({"x"}),
        Repeat(0, None, <<In({" "})>>),
        In({"="}),
        Repeat(0, None, <<In({" "})>>),
        Repeat(0, None, <<In(Alphabet \ {","})>>),
        Boundary,
        In({"s"}),
        In({"i"}),
        In({"n"}),
        Boundary,
        Repeat(0, None, <<In(Alphabet \ {","})>>),
        In({","}),
        Repeat(0, None, <<In(Alphabet \ {","})>>),
        In({"a"}),
        In({"y"}),
        Repeat(0, None, <<In({" "})>>),
        In({"="}),
        Repeat(0, None, <<In({" "})>>),
        Repeat(0, None, <<In(Alphabet \ {","})>>),
        Boundary,
        In({"c"}),
        In({"o"}),
        In({"s"}),
        Boundary>>,
      \* v[₀0]?[ₓx]\s*=\s*[^,\n]*\bsin\b[^,\n]*,[^,\n]*v[₀0]?[ᵧy]\s*=\s*[^,\n]*\bcos\b
      <<In({"v"}),
        Repeat(0, Some(1), <<In({"0"})>>),
        In({"x"}),
        Repeat(0, None, <<In({" "})>>),
        In({"="}),
        Repeat(0, None, <<In({" "})>>),
        Repeat(0, None, <<In(Alphabet \ {","})>>),
        Boundary,
        In({"s"}),
        In({"i"}),
        In({"n"}),
        Boundary,
        Repeat(0, None, <<In(Alphabet \ {","})>>),
        In({","}),
        Repeat(0, None, <<In(Alphabet \ {","})>>),
        In({"v"}),
        Repeat(0, Some(1), <<In({"0"})>>),
        In({"y"}),
        Repeat(0, None, <<In({" "})>>),
        In({"="}),
        Repeat(0, None, <<In({" "})>>),
        Repeat(0, None, <<In(Alphabet \ {","})>>),
        Boundary,
        In({"c"}),
        In({"o"}),
        In({"s"}),
        Boundary>>>>

\* H1: trigonometry_vector_decomposition
H1_PATTERNS ==
    <<\* \bv[₀0]?[ₓx]\b[^;,\n]*\bsin\b
      <<Boundary,
        In({"v"}),
        Repeat(0, Some(1), <<In({"0"})>>),
        In({"x"}),
        Boundary,
        Repeat(0, None, <<In(Alphabet \ {","})>>),
        Boundary,
        In({"s"}),
        In({"i"}),
        In({"n"}),
        Boundary>>,
      \* \ba[ₓx]\b[^;,\n]*\bsin\b
      <<Boundary,
        In({"a"}),
        In({"x"}),
        Boundary,
        Repeat(0, None, <<In(Alphabet \ {","})>>),
        Boundary,
        In({"s"}),
        In({"i"}),
        In({"n"}),
        Boundary>>,
      \* \bax\s*=\s*[^,\n]*\bsin\b
      <<Boundary,
        In({"a"}),
        In({"x"}),
        Repeat(0, None, <<In({" "})>>),
        In({"="}),
        Repeat(0, None, <<In({" "})>>),
        Repeat(0, None, <<In(Alphabet \ {","})>>),
        Boundary,
        In({"s"}),
        In({"i"}),
        In({"n"}),
        Boundary>>,
      \* \bv[₀0]?[ᵧy]\b[^;,\n]*\bcos\b
      <<Boundary,
        In({"v"}),
        Repeat(0, Some(1), <<In({"0"})>>),
        In({"y"}),
        Boundary,
        Repeat(0, None, <<In(Alphabet \ {","})>>),
        Boundary,
        In({"c"}),
        In({"o"}),
        In({"s"}),
        Boundary>>,
      \* \ba[ᵧy]\b[^;,\n]*\bcos\b
      <<Boundary,
        In({"a"}),
        In({"y"}),
        Boundary,
        Repeat(0, None, <<In(Alphabet \ {","})>>),
        Boundary,
        In({"c"}),
        In({"o"}),
        In({"s"}),
        Boundary>>,
      \* \bay\s*=\s*[^,\n]*\bcos\b
      <<Boundary,
        In({"a"}),
        In({"y"}),
        Repeat(0, None, <<In({" "})>>),
        In({"="}),
        Repeat(0, None, <<In({" "})>>),
        Repeat(0, None, <<In(Alphabet \ {","})>>),
        Boundary,
        In({"c"}),
        In({"o"}),
        In({"s"}),
        Boundary>>,
      \* \bx\s*=\s*sin\s*\(
      <<Boundary,
        In({"x"}),
        Repeat(0, None, <<In({" "})>>),
        In({"="}),
        Repeat(0, None, <<In({" "})>>),
        In({"s"}),
        In({"i"}),
        In({"n"}),
        Repeat(0, None, <<In({" "})>>),
        In({"("})>>,
      \* \by\s*=\s*cos\s*\(
      <<Boundary,
        In({"y"}),
        Repeat(0, None, <<In({" "})>>),
        In({"="}),
        Repeat(0, None, <<In({" "})>>),
        In({"c"}),
        In({"o"}),
        In({"s"}),
        Repeat(0, None, <<In({" "})>>),
        In({"("})>>,
      \* \b(ax|vx|ay|vy|v0x|v0y)\s*=\s*[^,\n]*\btan\s*\(
      <<Boundary,
        Branch(<<<<Branch(<<<<In({"a"}), In({"x"})>>, <<In({"v"}), In({"x"})>>, <<In({"a"}), In({"y"})>>, <<In({"v"}), In({"y"})>>, <<In({"v"}), In({"0"}), In({"x"})>>, <<In({"v"}), In({"0"}), In({"y"})>>>>)>>>>),
        Repeat(0, None, <<In({" "})>>),
        In({"="}),
        Repeat(0, None, <<In({" "})>>),
        Repeat(0, None, <<In(Alphabet \ {","})>>),
        Boundary,
        In({"t"}),
        In({"a"}),
        In({"n"}),
        Repeat(0, None, <<In({" "})>>),
        In({"("})>>,
      \* sin.*cos.*swapped|swapped.*sin.*cos
      <<In({"s"}),
        Branch(<<<<In({"i"}), In({"n"}), Repeat(0, None, <<In(Alphabet)>>), In({"c"}), In({"o"}), In({"s"}), Repeat(0, None, <<In(Alphabet)>>), In({"s"}), In({"w"}), In({"a"}), In({"p"}), In({"p"}), In({"e"}), In({"d"})>>, <<In({"w"}), In({"a"}), In({"p"}), In({"p"}), In({"e"}), In({"d"}), Repeat(0, None, <<In(Alphabet)>>), In({"s"}), In({"i"}), In({"n"}), Repeat(0, None, <<In(Alphabet)>>), In({"c"}), In({"o"}), In({"s"})>>>>)>>,
      \* horizontal\s+component\s*=\s*[^,\n]*\bsin\b
      <<In({"h"}),
        In({"o"}),
        In({"r"}),
        In({"i"}),
        In({}),
        In({"o"}),
        In({"n"}),
        In({"t"}),
        In({"a"}),
        In({"l"}),
        Repeat(1, None, <<In({" "})>>),
        In({"c"}),
        In({"o"}),
        In({"m"}),
        In({"p"}),
        In({"o"}),
        In({"n"}),
        In({"e"}),
        In({"n"}),
        In({"t"}),
        Repeat(0, None, <<In({" "})>>),
        In({"="}),
        Repeat(0, None, <<In({" "})>>),
        Repeat(0, None, <<In(Alphabet \ {","})>>),
        Boundary,
        In({"s"}),
        In({"i"}),
        In({"n"}),
        Boundary>>,
      \* sin\s+for\s+(the\s+)?horizontal
      <<In({"s"}),
        In({"i"}),
        In({"n"}),
        Repeat(1, None, <<In({" "})>>),
        In({"f"}),
        In({"o"}),
        In({"r"}),
        Repeat(1, None, <<In({" "})>>),
        Repeat(0, Some(1), <<Branch(<<<<In({"t"}), In({"h"}), In({"e"}), Repeat(1, None, <<In({" "})>>)>>>>)>>),
        In({"h"}),
        In({"o"}),
        In({"r"}),
        In({"i"}),
        In({}),
        In({"o"}),
        In({"n"}),
        In({"t"}),
        In({"a"}),
        In({"l"})>>>>

\* H2: angle_misinterpretation, the value patterns
H2_VALUE_SWAP ==
    <<\* cos\s*\(\s*60\s*°?\s*\)
      <<In({"c"}),
        In({"o"}),
        In({"s"}),
        Repeat(0, None, <<In({" "})>>),
        In({"("}),
        Repeat(0, None, <<In({" "})>>),
        In({"6"}),
        In({"0"}),
        Repeat(0, None, <<In({" "})>>),
        Repeat(0, Some(1), <<In({"deg"})>>),
        Repeat(0, None, <<In({" "})>>),
        In({")"})>>,
      \* sin\s*\(\s*60\s*°?\s*\)
      <<In({"s"}),
        In({"i"}),
        In({"n"}),
        Repeat(0, None, <<In({" "})>>),
        In({"("}),
        Repeat(0, None, <<In({" "})>>),
        In({"6"}),
        In({"0"}),
        Repeat(0, None, <<In({" "})>>),
        Repeat(0, Some(1), <<In({"deg"})>>),
        Repeat(0, None, <<In({" "})>>),
        In({")"})>>,
      \* cos\s*\(\s*53\s*°?\s*\)
      <<In({"c"}),
        In({"o"}),
        In({"s"}),
        Repeat(0, None, <<In({" "})>>),
        In({"("}),
        Repeat(0, None, <<In({" "})>>),
        In({}),
        In({"3"}),
        Repeat(0, None, <<In({" "})>>),
        Repeat(0, Some(1), <<In({"deg"})>>),
        Repeat(0, None, <<In({" "})>>),
        In({")"})>>,
      \* sin\s*\(\s*53\s*°?\s*\)
      <<In({"s"}),
        In({"i"}),
        In({"n"}),
        Repeat(0, None, <<In({" "})>>),
        In({"("}),
        Repeat(0, None, <<In({" "})>>),
        In({}),
        In({"3"}),
        Repeat(0, None, <<In({" "})>>),
        Repeat(0, Some(1), <<In({"deg"})>>),
        Repeat(0, None, <<In({" "})>>),
        In({")"})>>,
      \* 0\.707.*0\.707
      <<In({"0"}),
        In({}),
        In({}),
        In({"0"}),
        In({}),
        Repeat(0, None, <<In(Alphabet)>>),
        In({"0"}),
        In({}),
        In({}),
        In({"0"}),
        In({})>>,
      \* below\s+horizontal
      <<In({}),
        In({"e"}),
        In({"l"}),
        In({"o"}),
        In({"w"}),
        Repeat(1, None, <<In({" "})>>),
        In({"h"}),
        In({"o"}),
        In({"r"}),
        In({"i"}),
        In({}),
        In({"o"}),
        In({"n"}),
        In({"t"}),
        In({"a"}),
        In({"l"})>>,
      \* complement\s+angle
      <<In({"c"}),
        In({"o"}),
        In({"m"}),
        In({"p"}),
        In({"l"}),
        In({"e"}),
        In({"m"}),
        In({"e"}),
        In({"n"}),
        In({"t"}),
        Repeat(1, None, <<In({" "})>>),
        In({"a"}),
        In({"n"}),
        In({"g"}),
        In({"l"}),
        In({"e"})>>>>

\* H3: decoupling_horizontal_vertical
H3_PATTERNS ==
    <<\* t\s*=\s*2\s*v[₀0]?[ₓx]
      <<In({"t"}),
        Repeat(0, None, <<In({" "})>>),
        In({"="}),
        Repeat(0, None, <<In({" "})>>),
        In({"2"}),
        Repeat(0, None, <<In({" "})>>),
        In({"v"}),
        Repeat(0, Some(1), <<In({"0"})>>),
        In({"x"})>>,
      \* v[₀0]?[ₓx]\s*/\s*g
      <<In({"v"}),
        Repeat(0, Some(1), <<In({"0"})>>),
        In({"x"}),
        Repeat(0, None, <<In({" "})>>),
        In({"/"}),
        Repeat(0, None, <<In({" "})>>),
        In({"g"})>>,
      \* r\s*=\s*v[₀0]?[ᵧy]\s*[×x\*]?\s*t
      <<In({"r"}),
        Repeat(0, None, <<In({" "})>>),
        In({"="}),
        Repeat(0, None, <<In({" "})>>),
        In({"v"}),
        Repeat(0, Some(1), <<In({"0"})>>),
        In({"y"}),
        Repeat(0, None, <<In({" "})>>),
        Repeat(0, Some(1), <<In({"x"})>>),
        Repeat(0, None, <<In({" "})>>),
        In({"t"})>>,
      \* range\s*=\s*v[₀0]?[ᵧy]
      <<In({"r"}),
        In({"a"}),
        In({"n"}),
        In({"g"}),
        In({"e"}),
        Repeat(0, None, <<In({" "})>>),
        In({"="}),
        Repeat(0, None, <<In({" "})>>),
        In({"v"}),
        Repeat(0, Some(1), <<In({"0"})>>),
        In({"y"})>>,
      \* (vy|v0y|v₀ᵧ)\s*[×x\*]\s*t
      <<Branch(<<<<In({"v"}), Branch(<<<<In({"y"})>>, <<In({"0"}), In({"y"})>>, <<In({}), In({})>>>>)>>>>),
        Repeat(0, None, <<In({" "})>>),
        In({"x"}),
        Repeat(0, None, <<In({" "})>>),
        In({"t"})>>,
      \* \(v[₀0]?[ₓx]\s*\+\s*v[₀0]?[ᵧy]\)\s*[×x\*]\s*t
      <<In({"("}),
        In({"v"}),
        Repeat(0, Some(1), <<In({"0"})>>),
        In({"x"}),
        Repeat(0, None, <<In({" "})>>),
        In({}),
        Repeat(0, None, <<In({" "})>>),
        In({"v"}),
        Repeat(0, Some(1), <<In({"0"})>>),
        In({"y"}),
        In({")"}),
        Repeat(0, None, <<In({" "})>>),
        In({"x"}),
        Repeat(0, None, <<In({" "})>>),
        In({"t"})>>,
      \* both\s+(horizontal|vertical)\s+velocit
      <<In({}),
        In({"o"}),
        In({"t"}),
        In({"h"}),
        Repeat(1, None, <<In({" "})>>),
        Branch(<<<<Branch(<<<<In({"h"}), In({"o"}), In({"r"}), In({"i"}), In({}), In({"o"}), In({"n"}), In({"t"}), In({"a"}), In({"l"})>>, <<In({"v"}), In({"e"}), In({"r"}), In({"t"}), In({"i"}), In({"c"}), In({"a"}), In({"l"})>>>>)>>>>),
        Repeat(1, None, <<In({" "})>>),
        In({"v"}),
        In({"e"}),
        In({"l"}),
        In({"o"}),
        In({"c"}),
        In({"i"}),
        In({"t"})>>,
      \* vertical\s+velocity\s+(contributes|determines)\s+(horizontal|range)
      <<In({"v"}),
        In({"e"}),
        In({"r"}),
        In({"t"}),
        In({"i"}),
        In({"c"}),
        In({"a"}),
        In({"l"}),
        Repeat(1, None, <<In({" "})>>),
        In({"v"}),
        In({"e"}),
        In({"l"}),
        In({"o"}),
        In({"c"}),
        In({"i"}),
        In({"t"}),
        In({"y"}),
        Repeat(1, None, <<In({" "})>>),
        Branch(<<<<Branch(<<<<In({"c"}), In({"o"}), In({"n"}), In({"t"}), In({"r"}), In({"i"}), In({}), In({"u"}), In({"t"}), In({"e"}), In({"s"})>>, <<In({"d"}), In({"e"}), In({"t"}), In({"e"}), In({"r"}), In({"m"}), In({"i"}), In({"n"}), In({"e"}), In({"s"})>>>>)>>>>),
        Repeat(1, None, <<In({" "})>>),
        Branch(<<<<Branch(<<<<In({"h"}), In({"o"}), In({"r"}), In({"i"}), In({}), In({"o"}), In({"n"}), In({"t"}), In({"a"}), In({"l"})>>, <<In({"r"}), In({"a"}), In({"n"}), In({"g"}), In({"e"})>>>>)>>>>)>>>>

\* H4: free_body_forces_signs
H4_PATTERNS ==
    <<\* t\s*-\s*m[₁1]?g\s*sin
      <<In({"t"}),
        Repeat(0, None, <<In({" "})>>),
        In({"-"}),
        Repeat(0, None, <<In({" "})>>),
        In({"m"}),
        Repeat(0, Some(1), <<In({"1"})>>),
        In({"g"}),
        Repeat(0, None, <<In({" "})>>),
        In({"s"}),
        In({"i"}),
        In({"n"})>>,
      \* t\s*-\s*m[₂2]?g\b
      <<In({"t"}),
        Repeat(0, None, <<In({" "})>>),
        In({"-"}),
        Repeat(0, None, <<In({" "})>>),
        In({"m"}),
        Repeat(0, Some(1), <<In({"2"})>>),
        In({"g"}),
        Boundary>>,
      \* t\s*-\s*m.*=\s*m.*a.*t\s*-\s*m
      <<In({"t"}),
        Repeat(0, None, <<In({" "})>>),
        In({"-"}),
        Repeat(0, None, <<In({" "})>>),
        In({"m"}),
        Repeat(0, None, <<In(Alphabet)>>),
        In({"="}),
        Repeat(0, None, <<In({" "})>>),
        In({"m"}),
        Repeat(0, None, <<In(Alphabet)>>),
        In({"a"}),
        Repeat(0, None, <<In(Alphabet)>>),
        In({"t"}),
        Repeat(0, None, <<In({" "})>>),
        In({"-"}),
        Repeat(0, None, <<In({" "})>>),
        In({"m"})>>,
      \* opposite\s+direction
      <<In({"o"}),
        In({"p"}),
        In({"p"}),
        In({"o"}),
        In({"s"}),
        In({"i"}),
        In({"t"}),
        In({"e"}),
        Repeat(1, None, <<In({" "})>>),
        In({"d"}),
        In({"i"}),
        In({"r"}),
        In({"e"}),
        In({"c"}),
        In({"t"}),
        In({"i"}),
        In({"o"}),
        In({"n"})>>,
      \* m1g\s*sin.*\+\s*m2g
      <<In({"m"}),
        In({"1"}),
        In({"g"}),
        Repeat(0, None, <<In({" "})>>),
        In({"s"}),
        In({"i"}),
        In({"n"}),
        Repeat(0, None, <<In(Alphabet)>>),
        In({}),
        Repeat(0, None, <<In({" "})>>),
        In({"m"}),
        In({"2"}),
        In({"g"})>>,
      \* gravity.*component.*adds\s+tension
      <<In({"g"}),
        In({"r"}),
        In({"a"}),
        In({"v"}),
        In({"i"}),
        In({"t"}),
        In({"y"}),
        Repeat(0, None, <<In(Alphabet)>>),
        In({"c"}),
        In({"o"}),
        In({"m"}),
        In({"p"}),
        In({"o"}),
        In({"n"}),
        In({"e"}),
        In({"n"}),
        In({"t"}),
        Repeat(0, None, <<In(Alphabet)>>),
        In({"a"}),
        In({"d"}),
        In({"d"}),
        In({"s"}),
        Repeat(1, None, <<In({" "})>>),
        In({"t"}),
        In({"e"}),
        In({"n"}),
        In({"s"}),
        In({"i"}),
        In({"o"}),
        In({"n"})>>,
      \* (?:tension|t)\s+is\s+ignored|without\s+tension
      <<Branch(<<<<In({"t"}), Branch(<<<<In({"e"}), In({"n"}), In({"s"}), In({"i"}), In({"o"}), In({"n"})>>, <<>>>>), Repeat(1, None, <<In({" "})>>), In({"i"}), In({"s"}), Repeat(1, None, <<In({" "})>>), In({"i"}), In({"g"}), In({"n"}), In({"o"}), In({"r"}), In({"e"}), In({"d"})>>, <<In({"w"}), In({"i"}), In({"t"}), In({"h"}), In({"o"}), In({"u"}), In({"t"}), Repeat(1, None, <<In({" "})>>), In({"t"}), In({"e"}), In({"n"}), In({"s"}), In({"i"}), In({"o"}), In({"n"})>>>>)>>,
      \* arbitrary|randomly|a\s*=\s*3\s+m/s
      <<Branch(<<<<In({"a"}), In({"r"}), In({}), In({"i"}), In({"t"}), In({"r"}), In({"a"}), In({"r"}), In({"y"})>>, <<In({"r"}), In({"a"}), In({"n"}), In({"d"}), In({"o"}), In({"m"}), In({"l"}), In({"y"})>>, <<In({"a"}), Repeat(0, None, <<In({" "})>>), In({"="}), Repeat(0, None, <<In({" "})>>), In({"3"}), Repeat(1, None, <<In({" "})>>), In({"m"}), In({"/"}), In({"s"})>>>>)>>>>

\* H5: stoichiometry_moles_vs_mass
H5_PATTERNS ==
    <<\* n\s*\(\s*h[₂2]?\s*\)\s*=\s*10\s*mol
      <<In({"n"}),
        Repeat(0, None, <<In({" "})>>),
        In({"("}),
        Repeat(0, None, <<In({" "})>>),
        In({"h"}),
        Repeat(0, Some(1), <<In({"2"})>>),
        Repeat(0, None, <<In({" "})>>),
        In({")"}),
        Repeat(0, None, <<In({" "})>>),
        In({"="}),
        Repeat(0, None, <<In({" "})>>),
        In({"1"}),
        In({"0"}),
        Repeat(0, None, <<In({" "})>>),
        In({"m"}),
        In({"o"}),
        In({"l"})>>,
      \* n\s*\(\s*o[₂2]?\s*\)\s*=\s*50\s*mol
      <<In({"n"}),
        Repeat(0, None, <<In({" "})>>),
        In({"("}),
        Repeat(0, None, <<In({" "})>>),
        In({"o"}),
        Repeat(0, Some(1), <<In({"2"})>>),
        Repeat(0, None, <<In({" "})>>),
        In({")"}),
        Repeat(0, None, <<In({" "})>>),
        In({"="}),
        Repeat(0, None, <<In({" "})>>),
        In({}),
        In({"0"}),
        Repeat(0, None, <<In({" "})>>),
        In({"m"}),
        In({"o"}),
        In({"l"})>>,
      \* \d+\s*g\s+of\s+o[₂2]?\s*[><!]|g\s+of\s+o[₂2]?\s*>\s*\d+\s*g\s+of
      <<Branch(<<<<Repeat(1, None, <<In({"0", "1", "2", "3", "6"})>>), Repeat(0, None, <<In({" "})>>), In({"g"}), Repeat(1, None, <<In({" "})>>), In({"o"}), In({"f"}), Repeat(1, None, <<In({" "})>>), In({"o"}), Repeat(0, Some(1), <<In({"2"})>>), Repeat(0, None, <<In({" "})>>), In({})>>, <<In({"g"}), Repeat(1, None, <<In({" "})>>), In({"o"}), In({"f"}), Repeat(1, None, <<In({" "})>>), In({"o"}), Repeat(0, Some(1), <<In({"2"})>>), Repeat(0, None, <<In({" "})>>), In({}), Repeat(0, None, <<In({" "})>>), Repeat(1, None, <<In({"0", "1", "2", "3", "6"})>>), Repeat(0, None, <<In({" "})>>), In({"g"}), Repeat(1, None, <<In({" "})>>), In({"o"}), In({"f"})>>>>)>>,
      \* n\s*=\s*32|n\s*=\s*2\s+mol,\s*n.*=\s*32\s+mol
      <<In({"n"}),
        Branch(<<<<Repeat(0, None, <<In({" "})>>), In({"="}), Repeat(0, None, <<In({" "})>>), In({"3"}), In({"2"})>>, <<Repeat(0, None, <<In({" "})>>), In({"="}), Repeat(0, None, <<In({" "})>>), In({"2"}), Repeat(1, None, <<In({" "})>>), In({"m"}), In({"o"}), In({"l"}), In({","}), Repeat(0, None, <<In({" "})>>), In({"n"}), Repeat(0, None, <<In(Alphabet)>>), In({"="}), Repeat(0, None, <<In({" "})>>), In({"3"}), In({"2"}), Repeat(1, None, <<In({" "})>>), In({"m"}), In({"o"}), In({"l"})>>>>)>>,
      \* comparing\s+mass
      <<In({"c"}),
        In({"o"}),
        In({"m"}),
        In({"p"}),
        In({"a"}),
        In({"r"}),
        In({"i"}),
        In({"n"}),
        In({"g"}),
        Repeat(1, None, <<In({" "})>>),
        In({"m"}),
        In({"a"}),
        In({"s"}),
        In({"s"})>>,
      \* mass\s+is\s+(more|less|larger|smaller)\s+than
      <<In({"m"}),
        In({"a"}),
        In({"s"}),
        In({"s"}),
        Repeat(1, None, <<In({" "})>>),
        In({"i"}),
        In({"s"}),
        Repeat(1, None, <<In({" "})>>),
        Branch(<<<<Branch(<<<<In({"m"}), In({"o"}), In({"r"}), In({"e"})>>, <<In({"l"}), In({"e"}), In({"s"}), In({"s"})>>, <<In({"l"}), In({"a"}), In({"r"}), In({"g"}), In({"e"}), In({"r"})>>, <<In({"s"}), In({"m"}), In({"a"}), In({"l"}), In({"l"}), In({"e"}), In({"r"})>>>>)>>>>),
        Repeat(1, None, <<In({" "})>>),
        In({"t"}),
        In({"h"}),
        In({"a"}),
        In({"n"})>>,
      \* stoichiometr.*mass\s+instead|mass\s+instead.*mole
      <<Branch(<<<<In({"s"}), In({"t"}), In({"o"}), In({"i"}), In({"c"}), In({"h"}), In({"i"}), In({"o"}), In({"m"}), In({"e"}), In({"t"}), In({"r"}), Repeat(0, None, <<In(Alphabet)>>), In({"m"}), In({"a"}), In({"s"}), In({"s"}), Repeat(1, None, <<In({" "})>>), In({"i"}), In({"n"}), In({"s"}), In({"t"}), In({"e"}), In({"a"}), In({"d"})>>, <<In({"m"}), In({"a"}), In({"s"}), In({"s"}), Repeat(1, None, <<In({" "})>>), In({"i"}), In({"n"}), In({"s"}), In({"t"}), In({"e"}), In({"a"}), In({"d"}), Repeat(0, None, <<In(Alphabet)>>), In({"m"}), In({"o"}), In({"l"}), In({"e"})>>>>)>>>>

\* H6: algebra_calculus_concepts
H6_PATTERNS ==
    <<\* ∫\s*xⁿ\s*dx\s*=\s*xⁿ\s*[+cC]
      <<In({}),
        Repeat(0, None, <<In({" "})>>),
        In({"x"}),
        In({}),
        Repeat(0, None, <<In({" "})>>),
        In({"d"}),
        In({"x"}),
        Repeat(0, None, <<In({" "})>>),
        In({"="}),
        Repeat(0, None, <<In({" "})>>),
        In({"x"}),
        In({}),
        Repeat(0, None, <<In({" "})>>),
        In({"c"})>>,
      \* xⁿ⁻¹\s*/\s*n
      <<In({"x"}),
        In({}),
        In({}),
        In({}),
        Repeat(0, None, <<In({" "})>>),
        In({"/"}),
        Repeat(0, None, <<In({" "})>>),
        In({"n"})>>,
      \* d/dx\s*\(xⁿ\)\s*=\s*xⁿ⁻¹\b[^/]
      <<In({"d"}),
        In({"/"}),
        In({"d"}),
        In({"x"}),
        Repeat(0, None, <<In({" "})>>),
        In({"("}),
        In({"x"}),
        In({}),
        In({")"}),
        Repeat(0, None, <<In({" "})>>),
        In({"="}),
        Repeat(0, None, <<In({" "})>>),
        In({"x"}),
        In({}),
        In({}),
        In({}),
        Boundary,
        In(Alphabet \ {"/"})>>,
      \* d/dx.*=\s*n\s*[·.]?\s*xⁿ\b
      <<In({"d"}),
        In({"/"}),
        In({"d"}),
        In({"x"}),
        Repeat(0, None, <<In(Alphabet)>>),
        In({"="}),
        Repeat(0, None, <<In({" "})>>),
        In({"n"}),
        Repeat(0, None, <<In({" "})>>),
        Repeat(0, Some(1), <<In({})>>),
        Repeat(0, None, <<In({" "})>>),
        In({"x"}),
        In({}),
        Boundary>>,
      \* power\s+stays\s+the\s+same
      <<In({"p"}),
        In({"o"}),
        In({"w"}),
        In({"e"}),
        In({"r"}),
        Repeat(1, None, <<In({" "})>>),
        In({"s"}),
        In({"t"}),
        In({"a"}),
        In({"y"}),
        In({"s"}),
        Repeat(1, None, <<In({" "})>>),
        In({"t"}),
        In({"h"}),
        In({"e"}),
        Repeat(1, None, <<In({" "})>>),
        In({"s"}),
        In({"a"}),
        In({"m"}),
        In({"e"})>>,
      \* no\s+constant\s+of\s+integration
      <<In({"n"}),
        In({"o"}),
        Repeat(1, None, <<In({" "})>>),
        In({"c"}),
        In({"o"}),
        In({"n"}),
        In({"s"}),
        In({"t"}),
        In({"a"}),
        In({"n"}),
        In({"t"}),
        Repeat(1, None, <<In({" "})>>),
        In({"o"}),
        In({"f"}),
        Repeat(1, None, <<In({" "})>>),
        In({"i"}),
        In({"n"}),
        In({"t"}),
        In({"e"}),
        In({"g"}),
        In({"r"}),
        In({"a"}),
        In({"t"}),
        In({"i"}),
        In({"o"}),
        In({"n"})>>,
      \* c\s+(is\s+not|not)\s+(needed|required)
      <<In({"c"}),
        Repeat(1, None, <<In({" "})>>),
        Branch(<<<<Branch(<<<<In({"i"}), In({"s"}), Repeat(1, None, <<In({" "})>>), In({"n"}), In({"o"}), In({"t"})>>, <<In({"n"}), In({"o"}), In({"t"})>>>>)>>>>),
        Repeat(1, None, <<In({" "})>>),
        Branch(<<<<Branch(<<<<In({"n"}), In({"e"}), In({"e"}), In({"d"}), In({"e"}), In({"d"})>>, <<In({"r"}), In({"e"}), In({}), In({"u"}), In({"i"}), In({"r"}), In({"e"}), In({"d"})>>>>)>>>>)>>,
      \* without\s+(the\s+)?constant\s+c
      <<In({"w"}),
        In({"i"}),
        In({"t"}),
        In({"h"}),
        In({"o"}),
        In({"u"}),
        In({"t"}),
        Repeat(1, None, <<In({" "})>>),
        Repeat(0, Some(1), <<Branch(<<<<In({"t"}), In({"h"}), In({"e"}), Repeat(1, None, <<In({" "})>>)>>>>)>>),
        In({"c"}),
        In({"o"}),
        In({"n"}),
        In({"s"}),
        In({"t"}),
        In({"a"}),
        In({"n"}),
        In({"t"}),
        Repeat(1, None, <<In({" "})>>),
        In({"c"})>>,
      \* not\s+reducing\s+exponent
      <<In({"n"}),
        In({"o"}),
        In({"t"}),
        Repeat(1, None, <<In({" "})>>),
        In({"r"}),
        In({"e"}),
        In({"d"}),
        In({"u"}),
        In({"c"}),
        In({"i"}),
        In({"n"}),
        In({"g"}),
        Repeat(1, None, <<In({" "})>>),
        In({"e"}),
        In({"x"}),
        In({"p"}),
        In({"o"}),
        In({"n"}),
        In({"e"}),
        In({"n"}),
        In({"t"})>>,
      \* (integration|integral).*power\s+rule.*differentiat
      <<Branch(<<<<In({"i"}), In({"n"}), In({"t"}), In({"e"}), In({"g"}), In({"r"}), In({"a"}), Branch(<<<<In({"t"}), In({"i"}), In({"o"}), In({"n"})>>, <<In({"l"})>>>>)>>>>),
        Repeat(0, None, <<In(Alphabet)>>),
        In({"p"}),
        In({"o"}),
        In({"w"}),
        In({"e"}),
        In({"r"}),
        Repeat(1, None, <<In({" "})>>),
        In({"r"}),
        In({"u"}),
        In({"l"}),
        In({"e"}),
        Repeat(0, None, <<In(Alphabet)>>),
        In({"d"}),
        In({"i"}),
        In({"f"}),
        In({"f"}),
        In({"e"}),
        In({"r"}),
        In({"e"}),
        In({"n"}),
        In({"t"}),
        In({"i"}),
        In({"a"}),
        In({"t"})>>,
      \* d/dx\(5x³\)\s*=\s*15x³
      <<In({"d"}),
        In({"/"}),
        In({"d"}),
        In({"x"}),
        In({"("}),
        In({}),
        In({"x"}),
        In({}),
        In({")"}),
        Repeat(0, None, <<In({" "})>>),
        In({"="}),
        Repeat(0, None, <<In({" "})>>),
        In({"1"}),
        In({}),
        In({"x"}),
        In({})>>,
      \* d/dx\(5x3\)\s*=\s*5x2\b
      <<In({"d"}),
        In({"/"}),
        In({"d"}),
        In({"x"}),
        In({"("}),
        In({}),
        In({"x"}),
        In({"3"}),
        In({")"}),
        Repeat(0, None, <<In({" "})>>),
        In({"="}),
        Repeat(0, None, <<In({" "})>>),
        In({}),
        In({"x"}),
        In({"2"}),
        Boundary>>,
      \* d/dx\s*\(-7\)\s*=\s*-7
      <<In({"d"}),
        In({"/"}),
        In({"d"}),
        In({"x"}),
        Repeat(0, None, <<In({" "})>>),
        In({"("}),
        In({"-"}),
        In({}),
        In({")"}),
        Repeat(0, None, <<In({" "})>>),
        In({"="}),
        Repeat(0, None, <<In({" "})>>),
        In({"-"}),
        In({})>>,
      \* ∫1\s*dx\s*=\s*1\b
      <<In({}),
        In({"1"}),
        Repeat(0, None, <<In({" "})>>),
        In({"d"}),
        In({"x"}),
        Repeat(0, None, <<In({" "})>>),
        In({"="}),
        Repeat(0, None, <<In({" "})>>),
        In({"1"}),
        Boundary>>>>

\* _H2_COMPLEMENT_PAIRS: (angle of the correct answer, its complement)
H2_COMPLEMENT_PAIRS ==
    <<<<<<"3", "0">>, <<"6", "0">>>>,
      <<<<"6", "0">>, <<"3", "0">>>>,
      <<<<"3", "7">>, <<"5", "3">>>>,
      <<<<"5", "3">>, <<"3", "7">>>>,
      <<<<"4", "5">>, <<"4", "5">>>>>>

\* _MISCONCEPTION_TAG_MAP: (keyword, tag) in table order
MISCONCEPTION_TAG_MAP ==
    <<[keyword |-> <<"c", "o", "n", "f", "u", "s", "i", "n", "g", " ", "s", "i", "n", " ", "a", "n", "d", " ", "c", "o", "s">>,
       tag |-> "trigonometry_vector_decomposition"],
      [keyword |-> <<"s", "w", "a", "p", "p", "i", "n", "g", " ", "s", "i", "n">>,
       tag |-> "trigonometry_vector_decomposition"],
      [keyword |-> <<"s", "i", "n", " ", "a", "n", "d", " ", "c", "o", "s", " ", "w", "h", "e", "n", " ", "d", "e", "c", "o", "m", "p", "o", "s", "i", "n", "g">>,
       tag |-> "trigonometry_vector_decomposition"],
      [keyword |-> <<"s", "i", "n", " ", "a", "n", "d", " ", "c", "o", "s", " ", "i", "n", "c", "o", "r", "r", "e", "c", "t", "l", "y", " ", "f", "o", "r", " ", "a", "n", "g", "l", "e", " ", "d", "e", "c", "o", "m", "p", "o", "s", "i", "t", "i", "o", "n">>,
       tag |-> "trigonometry_vector_decomposition"],
      [keyword |-> <<"c", "o", "m", "p", "l", "e", "m", "e", "n", "t", " ", "a", "n", "g", "l", "e", " ", "i", "n", "s", "t", "e", "a", "d">>,
       tag |-> "angle_misinterpretation"],
      [keyword |-> <<"w", "r", "o", "n", "g", " ", "a", "n", "g", "l", "e">>,
       tag |-> "angle_misinterpretation"],
      [keyword |-> <<"u", "s", "i", "n", "g", " ", "t", "h", "e", " ", "c", "o", "m", "p", "l", "e", "m", "e", "n", "t">>,
       tag |-> "angle_misinterpretation"],
      [keyword |-> <<"v", "e", "r", "t", "i", "c", "a", "l", " ", "v", "e", "l", "o", "c", "i", "t", "y", " ", "a", "f", "f", "e", "c", "t", "s", " ", "h", "o", "r", "i", "z", "o", "n", "t", "a", "l">>,
       tag |-> "decoupling_horizontal_vertical"],
      [keyword |-> <<"n", "o", "t", " ", "r", "e", "c", "o", "g", "n", "i", "z", "i", "n", "g", " ", "t", "h", "a", "t", " ", "h", "o", "r", "i", "z", "o", "n", "t", "a", "l", " ", "v", "e", "l", "o", "c", "i", "t", "y", " ", "r", "e", "m", "a", "i", "n", "s">>,
       tag |-> "decoupling_horizontal_vertical"],
      [keyword |-> <<"t", "h", "i", "n", "k", "i", "n", "g", " ", "v", "e", "r", "t", "i", "c", "a", "l", " ", "v", "e", "l", "o", "c", "i", "t", "y", " ", "a", "f", "f", "e", "c", "t", "s", " ", "h", "o", "r", "i", "z", "o", "n", "t", "a", "l">>,
       tag |-> "decoupling_horizontal_vertical"],
      [keyword |-> <<"n", "o", "t", " ", "r", "e", "c", "o", "g", "n", "i", "z", "i", "n", "g", " ", "b", "o", "t", "h", " ", "m", "a", "s", "s", "e", "s", " ", "h", "a", "v", "e", " ", "s", "a", "m", "e">>,
       tag |-> "free_body_forces_signs"],
      [keyword |-> <<"c", "o", "n", "f", "u", "s", "i", "n", "g", " ", "d", "i", "r", "e", "c", "t", "i", "o", "n", " ", "c", "o", "n", "v", "e", "n", "t", "i", "o", "n", "s">>,
       tag |-> "free_body_forces_signs"],
      [keyword |-> <<"a", "s", "s", "u", "m", "i", "n", "g", " ", "m", "o", "t", "i", "o", "n", " ", "m", "u", "s", "t", " ", "o", "c", "c", "u", "r">>,
       tag |-> "free_body_forces_signs"],
      [keyword |-> <<"c", "o", "m", "p", "a", "r", "i", "n", "g", " ", "m", "a", "s", "s", "e", "s", " ", "i", "n", "s", "t", "e", "a", "d", " ", "o", "f", " ", "m", "o", "l", "e", "s">>,
       tag |-> "stoichiometry_moles_vs_mass"],
      [keyword |-> <<"u", "s", "i", "n", "g", " ", "m", "a", "s", "s", " ", "i", "n", "s", "t", "e", "a", "d", " ", "o", "f", " ", "m", "o", "l", "e", "s">>,
       tag |-> "stoichiometry_moles_vs_mass"],
      [keyword |-> <<"c", "o", "m", "p", "a", "r", "i", "n", "g", " ", "m", "a", "s", "s">>,
       tag |-> "stoichiometry_moles_vs_mass"],
      [keyword |-> <<"f", "o", "r", "g", "e", "t", "t", "i", "n", "g", " ", "t", "h", "e", " ", "c", "o", "e", "f", "f", "i", "c", "i", "e", "n", "t", " ", "n", " ", "i", "n", " ", "p", "o", "w", "e", "r", " ", "r", "u", "l", "e">>,
       tag |-> "algebra_calculus_concepts"],
      [keyword |-> <<"n", "o", "t", " ", "r", "e", "d", "u", "c", "i", "n", "g", " ", "e", "x", "p", "o", "n", "e", "n", "t">>,
       tag |-> "algebra_calculus_concepts"],
      [keyword |-> <<"f", "a", "i", "l", "i", "n", "g", " ", "t", "o", " ", "r", "e", "c", "o", "g", "n", "i", "z", "e", " ", "3", "x", " ", "=", " ", "3", "x", "1">>,
       tag |-> "algebra_calculus_concepts"],
      [keyword |-> <<"f", "o", "r", "g", "e", "t", "t", "i", "n", "g", " ", "t", "h", "a", "t", " ", "c", "o", "n", "s", "t", "a", "n", "t", " ", "d", "e", "r", "i", "v", "a", "t", "i", "v", "e", "s", " ", "t", "o", " ", "z", "e", "r", "o">>,
       tag |-> "algebra_calculus_concepts"],
      [keyword |-> <<"f", "o", "r", "g", "e", "t", "t", "i", "n", "g", " ", "t", "o", " ", "d", "i", "v", "i", "d", "e", " ", "b", "y", " ", "(", "n", "+", "1", ")">>,
       tag |-> "algebra_calculus_concepts"],
      [keyword |-> <<"f", "o", "r", "g", "e", "t", "t", "i", "n", "g", " ", "t", "h", "e", " ", "c", "o", "n", "s", "t", "a", "n", "t", " ", "c">>,
       tag |-> "algebra_calculus_concepts"],
      [keyword |-> <<"c", "o", "n", "f", "u", "s", "i", "n", "g", " ", "i", "n", "t", "e", "g", "r", "a", "t", "i", "o", "n", " ", "w", "i", "t", "h", " ", "d", "i", "f", "f", "e", "r", "e", "n", "t", "i", "a", "t", "i", "o", "n">>,
       tag |-> "algebra_calculus_concepts"]>>

\* all_known_tags: (keyword, tag) in the dict's insertion order
ALL_KNOWN_TAGS ==
    <<[keyword |-> <<"s", "i", "n">>, tag |-> "trigonometry_vector_decomposition"],
      [keyword |-> <<"c", "o", "s">>, tag |-> "trigonometry_vector_decomposition"],
      [keyword |-> <<"a", "n", "g", "l", "e">>, tag |-> "angle_misinterpretation"],
      [keyword |-> <<"c", "o", "m", "p", "l", "e", "m", "e", "n", "t">>, tag |-> "angle_misinterpretation"],
      [keyword |-> <<"h", "o", "r", "i", "z", "o", "n", "t", "a", "l">>, tag |-> "decoupling_horizontal_vertical"],
      [keyword |-> <<"v", "e", "r", "t", "i", "c", "a", "l">>, tag |-> "decoupling_horizontal_vertical"],
      [keyword |-> <<"t", "e", "n", "s", "i", "o", "n">>, tag |-> "free_body_forces_signs"],
      [keyword |-> <<"d", "i", "r", "e", "c", "t", "i", "o", "n">>, tag |-> "free_body_forces_signs"],
      [keyword |-> <<"m", "a", "s", "s">>, tag |-> "stoichiometry_moles_vs_mass"],
      [keyword |-> <<"m", "o", "l", "e">>, tag |-> "stoichiometry_moles_vs_mass"],
      [keyword |-> <<"d", "e", "r", "i", "v", "a", "t", "i", "v", "e">>, tag |-> "algebra_calculus_concepts"],
      [keyword |-> <<"i", "n", "t", "e", "g", "r", "a", "l">>, tag |-> "algebra_calculus_concepts"],
      [keyword |-> <<"c", "o", "n", "s", "t", "a", "n", "t", " ", "c">>, tag |-> "algebra_calculus_concepts"]>>

\* option texts
\* O_swap: "Ax = 10 sin(30°), Ay = 10 cos(30°)"
O_swap == <<"A", "x", " ", "=", " ", "1", "0", " ", "s", "i", "n", "(", "3", "0", "deg", ")", ",", " ", "A", "y", " ", "=", " ", "1", "0", " ", "c", "o", "s", "(", "3", "0", "deg", ")">>
\* O_SWAP60: "AX = 10  SIN(60°), AY = 10 COS(60°)"
O_SWAP60 == <<"A", "X", " ", "=", " ", "1", "0", " ", " ", "S", "I", "N", "(", "6", "0", "deg", ")", ",", " ", "A", "Y", " ", "=", " ", "1", "0", " ", "C", "O", "S", "(", "6", "0", "deg", ")">>
\* O_vx_sin: "Vx = 10 sin(30°)"
O_vx_sin == <<"V", "x", " ", "=", " ", "1", "0", " ", "s", "i", "n", "(", "3", "0", "deg", ")">>
\* O_cos60: "Ax = 10 cos(60°)"
O_cos60 == <<"A", "x", " ", "=", " ", "1", "0", " ", "c", "o", "s", "(", "6", "0", "deg", ")">>
\* O_decouple: "t = 2 Vx / g, opposite direction"
O_decouple == <<"t", " ", "=", " ", "2", " ", "V", "x", " ", "/", " ", "g", ",", " ", "o", "p", "p", "o", "s", "i", "t", "e", " ", "d", "i", "r", "e", "c", "t", "i", "o", "n">>
\* O_tension: "T - m2g = m2 a"
O_tension == <<"T", " ", "-", " ", "m", "2", "g", " ", "=", " ", "m", "2", " ", "a">>
\* O_mass: "comparing mass, power stays the same"
O_mass == <<"c", "o", "m", "p", "a", "r", "i", "n", "g", " ", "m", "a", "s", "s", ",", " ", "p", "o", "w", "e", "r", " ", "s", "t", "a", "y", "s", " ", "t", "h", "e", " ", "s", "a", "m", "e">>
\* O_power: "power stays the same"
O_power == <<"p", "o", "w", "e", "r", " ", "s", "t", "a", "y", "s", " ", "t", "h", "e", " ", "s", "a", "m", "e">>
\* O_angle: "the angle is 10"
O_angle == <<"t", "h", "e", " ", "a", "n", "g", "l", "e", " ", "i", "s", " ", "1", "0">>
\* O_plain: "Ax = 10"
O_plain == <<"A", "x", " ", "=", " ", "1", "0">>
\* O_empty: ""
O_empty == <<>>

\* correct-answer texts
\* C_cos30: "Ax = 10 cos(30°)"
C_cos30 == <<"A", "x", " ", "=", " ", "1", "0", " ", "c", "o", "s", "(", "3", "0", "deg", ")">>
\* C_cos60: "Ax = 10 cos(60°)"
C_cos60 == <<"A", "x", " ", "=", " ", "1", "0", " ", "c", "o", "s", "(", "6", "0", "deg", ")">>
\* C_plain: "t = 2"
C_plain == <<"t", " ", "=", " ", "2">>

\* explanation texts
\* E_none: ""
E_none == <<>>
\* E_angle: "The angle gives cos"
E_angle == <<"T", "h", "e", " ", "a", "n", "g", "l", "e", " ", "g", "i", "v", "e", "s", " ", "c", "o", "s">>
\* E_mass: "Mass and Angle"
E_mass == <<"M", "a", "s", "s", " ", "a", "n", "d", " ", "A", "n", "g", "l", "e">>

\* common-misconception descriptions
\* M_sincos: "Confusing  sin and cos"
M_sincos == <<"C", "o", "n", "f", "u", "s", "i", "n", "g", " ", " ", "s", "i", "n", " ", "a", "n", "d", " ", "c", "o", "s">>
\* M_mass_sincos: "Comparing mass, confusing sin and cos"
M_mass_sincos == <<"C", "o", "m", "p", "a", "r", "i", "n", "g", " ", "m", "a", "s", "s", ",", " ", "c", "o", "n", "f", "u", "s", "i", "n", "g", " ", "s", "i", "n", " ", "a", "n", "d", " ", "c", "o", "s">>
\* M_angle: "a Wrong Angle"
M_angle == <<"a", " ", "W", "r", "o", "n", "g", " ", "A", "n", "g", "l", "e">>
\* M_other: "Careless arithmetic"
M_other == <<"C", "a", "r", "e", "l", "e", "s", "s", " ", "a", "r", "i", "t", "h", "m", "e", "t", "i", "c">>

\* \b at position i of text: exactly one of the characters around it is a word character
AtBoundary(text, i) ==
    LET IsWord(k) == k \in 1..Len(text) /\ text[k] \in WordChars
    IN  IsWord(i - 1) # IsWord(i)

RECURSIVE SeqEnds(_, _, _)
RECURSIVE NodeEnds(_, _, _)
RECURSIVE RepeatEnds(_, _, _, _)

\* the positions where a match of the node sequence re can end when it starts at a
\* position of starts
SeqEnds(re, text, starts) ==
    IF re = <<>> \/ starts = {} THEN starts
    ELSE SeqEnds(Tail(re), text, UNION {NodeEnds(Head(re), text, i) : i \in starts})

NodeEnds(n, text, i) ==
    CASE n.t = "in" -> IF i <= Len(text) /\ text[i] \in n.s THEN {i + 1} ELSE {}
      [] n.t = "b" -> IF AtBoundary(text, i) THEN {i} ELSE {}
      [] n.t = "rep" -> RepeatEnds(n, text, {i}, 0)
      [] n.t = "alt" -> UNION {SeqEnds(n.rs[k], text, {i}) : k \in DOMAIN n.rs}

\* starts: where the count-th repetition can end
RepeatEnds(n, text, starts, count) ==
    (IF count >= n.lo THEN starts ELSE {})
    \cup (IF starts = {} \/ n.hi = Some(count) \/ count > Len(text) THEN {}
          ELSE RepeatEnds(n, text, SeqEnds(n.r, text, starts), count + 1))

\* bool(re.search(re, text))
Search(re, text) == SeqEnds(re, text, 1..(Len(text) + 1)) # {}

\* keyword in text
Contains(text, keyword) ==
    \E i \in 1..(Len(text) - Len(keyword) + 1) :
        SubSeq(text, i, i + Len(keyword) - 1) = keyword

\* text.startswith(prefix)
StartsWith(text, prefix) ==
    Len(prefix) <= Len(text) /\ SubSeq(text, 1, Len(prefix)) = prefix

\* re.sub(r'\s+', ' ', text) from index i on: every run of whitespace becomes one space
RECURSIVE CollapseWhitespace(_, _)
CollapseWhitespace(text, i) ==
    IF i > Len(text) THEN <<>>
    ELSE (IF ~IsSpace(text[i]) THEN <<text[i]>>
          ELSE IF i > 1 /\ IsSpace(text[i - 1]) THEN <<>> ELSE <<" ">>)
         \o CollapseWhitespace(text, i + 1)

\* _normalize
Normalize(text) == Lower(Strip(CollapseWhitespace(text, 1)))

\* _match_patterns, on a list of compiled expressions
MatchPatterns(text, compiled) == \E k \in DOMAIN compiled : Search(compiled[k], text)

\* _h1_component_swap
H1ComponentSwap(opt) ==
    IF Search(H1_COMPONENT_SWAP[1], opt) THEN TRUE
    ELSE Search(H1_COMPONENT_SWAP[2], opt)

\* rf'\b{angle}°'
AngleExpression(angle) ==
    <<Boundary>> \o [k \in 1..Len(angle) |-> In({angle[k]})] \o <<In({"deg"})>>

\* _h2_complement_angle
H2ComplementAngle(opt, correct) ==
    \/ \E k \in DOMAIN H2_COMPLEMENT_PAIRS :
          /\ Search(AngleExpression(H2_COMPLEMENT_PAIRS[k][2]), opt)
          /\ Search(AngleExpression(H2_COMPLEMENT_PAIRS[k][1]), correct)
    \/ \E k \in DOMAIN H2_VALUE_SWAP : Search(H2_VALUE_SWAP[k], opt)

-----------------------------------------------------------------------------
(* _classify_wrong_option *)

OptionTexts ==
    {O_swap, O_SWAP60, O_vx_sin, O_cos60, O_decouple, O_tension, O_mass, O_power,
     O_angle, O_plain, O_empty}
CorrectTexts == {C_cos30, C_cos60, C_plain}
ExplanationTexts == {E_none, E_angle, E_mass}
MisconceptionTexts == {M_sincos, M_mass_sincos, M_angle, M_other}

\* the six detectors of lines 302-326, each as a predicate on (opt, cor); swap is
\* _h1_component_swap alone
Detectors(opt, cor) ==
    [swap |-> H1ComponentSwap(opt),
     h1 |-> H1ComponentSwap(opt) \/ MatchPatterns(opt, H1_PATTERNS),
     h2 |-> H2ComplementAngle(opt, cor),
     h3 |-> MatchPatterns(opt, H3_PATTERNS),
     h4 |-> MatchPatterns(opt, H4_PATTERNS),
     h5 |-> MatchPatterns(opt, H5_PATTERNS),
     h6 |-> MatchPatterns(opt, H6_PATTERNS)]

\* Detectors on the normalized texts of the model, computed once
DetectorTable ==
    {<<Normalize(o), Normalize(c), Detectors(Normalize(o), Normalize(c))>> :
        o \in OptionTexts, c \in CorrectTexts}

Detected(opt, cor) == (CHOOSE row \in DetectorTable : row[1] = opt /\ row[2] = cor)[3]

\* the loops of lines 329-336 without the looser acceptance of line 336
RECURSIVE MisconceptionKeywordStrict(_, _, _, _, _)
MisconceptionKeywordStrict(misconceptions, m, k, opt, expl) ==
    IF m > Len(misconceptions) THEN None
    ELSE IF k > Len(MISCONCEPTION_TAG_MAP)
    THEN MisconceptionKeywordStrict(misconceptions, m + 1, 1, opt, expl)
    ELSE IF /\ Contains(misconceptions[m], MISCONCEPTION_TAG_MAP[k].keyword)
            /\ \/ Contains(opt, MISCONCEPTION_TAG_MAP[k].keyword)
               \/ Contains(expl, MISCONCEPTION_TAG_MAP[k].keyword)
    THEN Some(<<MISCONCEPTION_TAG_MAP[k].tag, "medium">>)
    ELSE MisconceptionKeywordStrict(misconceptions, m, k + 1, opt, expl)

\* lines 329-336: the two loops, from entry m and table row k on; the first keyword
\* found in an entry returns
RECURSIVE MisconceptionKeyword(_, _, _, _, _)
MisconceptionKeyword(misconceptions, m, k, opt, expl) ==
    IF m > Len(misconceptions) THEN None
    ELSE IF k > Len(MISCONCEPTION_TAG_MAP)
    THEN MisconceptionKeyword(misconceptions, m + 1, 1, opt, expl)
    ELSE IF Contains(misconceptions[m], MISCONCEPTION_TAG_MAP[k].keyword)
    THEN IF \/ Contains(opt, MISCONCEPTION_TAG_MAP[k].keyword)
            \/ Contains(expl, MISCONCEPTION_TAG_MAP[k].keyword)
         THEN Some(<<MISCONCEPTION_TAG_MAP[k].tag, "medium">>)
         ELSE Some(<<MISCONCEPTION_TAG_MAP[k].tag, "medium">>)
    ELSE MisconceptionKeyword(misconceptions, m, k + 1, opt, expl)

\* lines 354-357: matched_tags, from row k of all_known_tags on
RECURSIVE MatchedTags(_, _, _)
MatchedTags(k, opt, expl) ==
    IF k > Len(ALL_KNOWN_TAGS) THEN <<>>
    ELSE (IF /\ Contains(opt, ALL_KNOWN_TAGS[k].keyword)
             /\ Contains(expl, ALL_KNOWN_TAGS[k].keyword)
          THEN <<ALL_KNOWN_TAGS[k].tag>> ELSE <<>>)
         \o MatchedTags(k + 1, opt, expl)

\* the cascade with the angle detector before the trig-swap detector
CascadeAngleFirst(detected, keyword, matched_tags) ==
    IF detected.h2 THEN <<"angle_misinterpretation", "high">>
    ELSE IF detected.h1 THEN <<"trigonometry_vector_decomposition", "high">>
    ELSE IF detected.h3 THEN <<"decoupling_horizontal_vertical", "high">>
    ELSE IF detected.h4 THEN <<"free_body_forces_signs", "high">>
    ELSE IF detected.h5 THEN <<"stoichiometry_moles_vs_mass", "high">>
    ELSE IF detected.h6 THEN <<"algebra_calculus_concepts", "high">>
    ELSE IF keyword # None THEN Get(keyword)
    ELSE IF matched_tags # <<>> THEN <<matched_tags[1], "medium">>
    ELSE <<"prereq_unknown", "low">>

\* the cascade with the misconception keywords before the detectors
CascadeKeywordFirst(detected, keyword, matched_tags) ==
    IF keyword # None THEN Get(keyword)
    ELSE IF detected.h1 THEN <<"trigonometry_vector_decomposition", "high">>
    ELSE IF detected.h2 THEN <<"angle_misinterpretation", "high">>
    ELSE IF detected.h3 THEN <<"decoupling_horizontal_vertical", "high">>
    ELSE IF detected.h4 THEN <<"free_body_forces_signs", "high">>
    ELSE IF detected.h5 THEN <<"stoichiometry_moles_vs_mass", "high">>
    ELSE IF detected.h6 THEN <<"algebra_calculus_concepts", "high">>
    ELSE IF matched_tags # <<>> THEN <<matched_tags[1], "medium">>
    ELSE <<"prereq_unknown", "low">>

\* the cascade with a keyword overlap reported at low confidence
CascadeOverlapLow(detected, keyword, matched_tags) ==
    IF detected.h1 THEN <<"trigonometry_vector_decomposition", "high">>
    ELSE IF detected.h2 THEN <<"angle_misinterpretation", "high">>
    ELSE IF detected.h3 THEN <<"decoupling_horizontal_vertical", "high">>
    ELSE IF detected.h4 THEN <<"free_body_forces_signs", "high">>
    ELSE IF detected.h5 THEN <<"stoichiometry_moles_vs_mass", "high">>
    ELSE IF detected.h6 THEN <<"algebra_calculus_concepts", "high">>
    ELSE IF keyword # None THEN Get(keyword)
    ELSE IF matched_tags # <<>> THEN <<matched_tags[1], "low">>
    ELSE <<"prereq_unknown", "low">>

\* the return statements of _classify_wrong_option in their order: detected holds the
\* six detectors, keyword the outcome of the loops of lines 329-336, matched_tags the
\* list of lines 354-357
Cascade(detected, keyword, matched_tags) ==
    IF detected.h1 THEN <<"trigonometry_vector_decomposition", "high">>
    ELSE IF detected.h2 THEN <<"angle_misinterpretation", "high">>
    ELSE IF detected.h3 THEN <<"decoupling_horizontal_vertical", "high">>
    ELSE IF detected.h4 THEN <<"free_body_forces_signs", "high">>
    ELSE IF detected.h5 THEN <<"stoichiometry_moles_vs_mass", "high">>
    ELSE IF detected.h6 THEN <<"algebra_calculus_concepts", "high">>
    ELSE IF keyword # None THEN Get(keyword)
    ELSE IF matched_tags # <<>> THEN <<matched_tags[1], "medium">>
    ELSE <<"prereq_unknown", "low">>

\* _classify_wrong_option(selected_text, correct_text, step): (prereq_tag, confidence)
ClassifyWrongOption(selected_text, correct_text, step) ==
    LET opt == Normalize(selected_text)
        cor == Normalize(correct_text)
        misconceptions ==
            [m \in DOMAIN step.commonMisconceptions |->
                Normalize(step.commonMisconceptions[m])]
        expl == Normalize(step.explanation)
    IN  Cascade(Detected(opt, cor),
                MisconceptionKeyword(misconceptions, 1, 1, opt, expl),
                MatchedTags(1, opt, expl))

-----------------------------------------------------------------------------
(* SpecClassify: _classify_wrong_option over the texts of the model *)

MaxMisconceptions == 2

\* the commonMisconceptions lists of a step
MisconceptionLists ==
    UNION {[1..n -> MisconceptionTexts] : n \in 0..MaxMisconceptions}

\* the metadata of a step the classifier reads
StepMetadata ==
    {[explanation |-> e, commonMisconceptions |-> l] :
        e \in ExplanationTexts, l \in MisconceptionLists}

InitClassify ==
    /\ patterns = <<>>
    /\ prerequisites = NoGraph
    /\ checkpoint = NoCheckpoint
    /\ ChainIdle
    /\ MatchIdle
    /\ EvalIdle
    /\ ConcIdle
    /\ PathIdle
    /\ MissingIdle
    /\ AnswerIdle
    /\ ClassifyIdle
    /\ DiagnosisIdle
    /\ SessionIdle

\* a call _classify_wrong_option(selected_text, correct_text, step), up to its
\* return statement
ClassifyCall ==
    /\ classify_query = None
    /\ \E selected_text \in OptionTexts, correct_text \in CorrectTexts,
          step \in StepMetadata :
          /\ classify_query' = Some([selected_text |-> selected_text,
                                     correct_text |-> correct_text,
                                     step |-> step])
          /\ classified' =
                Some(ClassifyWrongOption(selected_text, correct_text, step))
    /\ UNCHANGED <<diagnosisVars, sessionVars, answerVars, missingVars, pathVars, concVars,
                   prerequisites, patterns, chainVars, matchVars, evalVars>>

\* the return: the call is over
ClassifyReturn ==
    /\ classify_query # None
    /\ classify_query' = None
    /\ classified' = None
    /\ UNCHANGED <<diagnosisVars, sessionVars, answerVars, missingVars, pathVars, concVars,
                   prerequisites, patterns, chainVars, matchVars, evalVars>>

NextClassify ==
    \/ ClassifyCall
    \/ ClassifyReturn

SpecClassify == InitClassify /\ [][NextClassify]_vars

-----------------------------------------------------------------------------
(* Claims about _classify_wrong_option *)

\* the arguments of the call, as the classifier reads them
NormalizedQuery ==
    [opt |-> Normalize(Get(classify_query).selected_text),
     cor |-> Normalize(Get(classify_query).correct_text),
     expl |-> Normalize(Get(classify_query).step.explanation),
     misconceptions |->
        [m \in DOMAIN Get(classify_query).step.commonMisconceptions |->
            Normalize(Get(classify_query).step.commonMisconceptions[m])]]

\* the (entry, keyword) pairs of rule 7: the keyword occurs in the entry
KeywordPairs(q) ==
    {pr \in (DOMAIN q.misconceptions) \X (DOMAIN MISCONCEPTION_TAG_MAP) :
        Contains(q.misconceptions[pr[1]], MISCONCEPTION_TAG_MAP[pr[2]].keyword)}

\* the first of the pairs, in list order and then in table order
FirstPair(pairs) ==
    CHOOSE pr \in pairs :
        \A other \in pairs : pr[1] < other[1] \/ (pr[1] = other[1] /\ pr[2] <= other[2])

\* the rows of rule 8: the keyword occurs in the option text and in the explanation
OverlapRows(q) ==
    {k \in DOMAIN ALL_KNOWN_TAGS :
        /\ Contains(q.opt, ALL_KNOWN_TAGS[k].keyword)
        /\ Contains(q.expl, ALL_KNOWN_TAGS[k].keyword)}

Least(S) == CHOOSE n \in S : \A other \in S : n <= other

\* the predicate of rule n of the cascade
RuleHolds(n, q) ==
    CASE n = 1 -> Detected(q.opt, q.cor).h1
      [] n = 2 -> Detected(q.opt, q.cor).h2
      [] n = 3 -> Detected(q.opt, q.cor).h3
      [] n = 4 -> Detected(q.opt, q.cor).h4
      [] n = 5 -> Detected(q.opt, q.cor).h5
      [] n = 6 -> Detected(q.opt, q.cor).h6
      [] n = 7 -> KeywordPairs(q) # {}
      [] n = 8 -> OverlapRows(q) # {}
      [] n = 9 -> TRUE

\* the (tag, confidence) of rule n when its predicate holds
RuleOutcome(n, q) ==
    CASE n = 1 -> <<"trigonometry_vector_decomposition", "high">>
      [] n = 2 -> <<"angle_misinterpretation", "high">>
      [] n = 3 -> <<"decoupling_horizontal_vertical", "high">>
      [] n = 4 -> <<"free_body_forces_signs", "high">>
      [] n = 5 -> <<"stoichiometry_moles_vs_mass", "high">>
      [] n = 6 -> <<"algebra_calculus_concepts", "high">>
      [] n = 7 -> <<MISCONCEPTION_TAG_MAP[FirstPair(KeywordPairs(q))[2]].tag, "medium">>
      [] n = 8 -> <<ALL_KNOWN_TAGS[Least(OverlapRows(q))].tag, "medium">>
      [] n = 9 -> <<"prereq_unknown", "low">>

\* the rules whose predicate holds
RulesHolding(q) == {n \in 1..9 : RuleHolds(n, q)}

\* C21: the classifier returns the (tag, confidence) of the first rule, in the order
\* trig-swap, angle, decoupling, force-sign, mass-vs-moles, calculus,
\* misconception-keyword, keyword-overlap, unknown, whose predicate holds; when the
\* swap detector matches the result is (trigonometry_vector_decomposition, high)
C21_PriorityCascade ==
    classified # None =>
        \A q \in {NormalizedQuery} :
            /\ Get(classified) = RuleOutcome(Least(RulesHolding(q)), q)
            /\ Detected(q.opt, q.cor).swap =>
                  Get(classified) = <<"trigonometry_vector_decomposition", "high">>

\* a call where the swap detector, the angle detector, a misconception keyword of
\* another tag and a keyword overlap all match, and the swap detector decides
C21_Witness ==
    /\ classified = Some(<<"trigonometry_vector_decomposition", "high">>)
    /\ \E q \in {NormalizedQuery} :
          /\ Detected(q.opt, q.cor).swap
          /\ {2, 7, 8} \subseteq RulesHolding(q)
          /\ RuleOutcome(7, q)[1] = "angle_misinterpretation"

\* C22: for the option text "Ax = 10 sin(30 deg), Ay = 10 cos(30 deg)", every correct
\* text, every explanation and every common-misconceptions list, the empty one
\* included, the classifier returns (trigonometry_vector_decomposition, high)
C22_SwapOption ==
    (classified # None /\ Get(classify_query).selected_text = O_swap) =>
        Get(classified) = <<"trigonometry_vector_decomposition", "high">>

\* the option classified against a correct text of the complementary angle, with a
\* misconception list that names a wrong angle
C22_Witness ==
    /\ classify_query # None
    /\ Get(classify_query).selected_text = O_swap
    /\ Get(classify_query).correct_text = C_cos60
    /\ Get(classify_query).step.commonMisconceptions = <<M_angle, M_other>>
    /\ classified = Some(<<"trigonometry_vector_decomposition", "high">>)

\* the same option with no misconception listed
C22_WitnessEmptyList ==
    /\ classify_query # None
    /\ Get(classify_query).selected_text = O_swap
    /\ Get(classify_query).step.commonMisconceptions = <<>>
    /\ classified = Some(<<"trigonometry_vector_decomposition", "high">>)

\* the six prerequisite tags
PrerequisiteTags ==
    {"trigonometry_vector_decomposition", "angle_misinterpretation",
     "decoupling_horizontal_vertical", "free_body_forces_signs",
     "stoichiometry_moles_vs_mass", "algebra_calculus_concepts"}

\* C23: every call returns a tag out of the six prerequisite tags and prereq_unknown
\* and a confidence out of high, medium, low; the result is (prereq_unknown, low)
\* exactly when none of rules 1-8 matches, the confidence is low exactly when the tag
\* is prereq_unknown, and high exactly when one of detectors 1-6 matched
C23_TotalClassification ==
    classify_query # None =>
        /\ classified # None
        /\ \A q \in {NormalizedQuery}, tag \in {Get(classified)[1]},
              confidence \in {Get(classified)[2]} :
              /\ tag \in PrerequisiteTags \cup {"prereq_unknown"}
              /\ confidence \in {"high", "medium", "low"}
              /\ Get(classified) = <<"prereq_unknown", "low">>
                    <=> RulesHolding(q) \cap (1..8) = {}
              /\ confidence = "low" <=> tag = "prereq_unknown"
              /\ confidence = "high" <=> RulesHolding(q) \cap (1..6) # {}

\* a call with a listed misconception and an explanation where no rule matches: the
\* result is the unknown outcome
C23_Witness ==
    /\ classified = Some(<<"prereq_unknown", "low">>)
    /\ Get(classify_query).selected_text = O_plain
    /\ Get(classify_query).step.commonMisconceptions = <<M_other>>
    /\ Get(classify_query).step.explanation = E_angle

\* C24: when none of detectors 1-6 matches and an entry of the common-misconceptions
\* list contains a keyword of _MISCONCEPTION_TAG_MAP, the result is, at confidence
\* medium, the tag of the first (entry, keyword) pair in list order and then table
\* order, whether or not the keyword occurs in the option text or the explanation: a
\* value of the list alone; the keyword-overlap rule decides only when no entry
\* contains a keyword
C24_MisconceptionKeyword ==
    classified # None =>
        \A q \in {NormalizedQuery} :
            RulesHolding(q) \cap (1..6) = {} =>
                /\ KeywordPairs(q) # {} =>
                      Get(classified) =
                          <<MISCONCEPTION_TAG_MAP[FirstPair(KeywordPairs(q))[2]].tag,
                            "medium">>
                /\ KeywordPairs(q) = {} =>
                      Get(classified) =
                          IF OverlapRows(q) # {}
                          THEN <<ALL_KNOWN_TAGS[Least(OverlapRows(q))].tag, "medium">>
                          ELSE <<"prereq_unknown", "low">>

\* no detector matches, the option and the explanation share the keyword "angle", and
\* the first entry of the list holds two table keywords, neither of them in the option
\* or the explanation: the earlier table row decides
C24_Witness ==
    /\ classified = Some(<<"trigonometry_vector_decomposition", "medium">>)
    /\ Get(classify_query).selected_text = O_angle
    /\ Get(classify_query).step.explanation = E_angle
    /\ Get(classify_query).step.commonMisconceptions = <<M_mass_sincos, M_angle>>
    /\ \A q \in {NormalizedQuery} :
          /\ RulesHolding(q) \cap (1..6) = {}
          /\ OverlapRows(q) # {}
          /\ <<1, 1>> \in KeywordPairs(q)
          /\ <<1, 16>> \in KeywordPairs(q)
          /\ ~Contains(q.opt, MISCONCEPTION_TAG_MAP[1].keyword)
          /\ ~Contains(q.expl, MISCONCEPTION_TAG_MAP[1].keyword)

-----------------------------------------------------------------------------
(* run_diagnosis.  The fields sessionId, studentId, problemId and timestamp of its
   result, which it copies from the payload or reads from the clock, are left out. *)

MaxStudentAnswers == 2
MaxResources == 2

ResourceIds == {"r1", "r2"}

\* entries of resourcesDB; resourceId is None for an entry without that key
ResourceEntries ==
    {[resourceId |-> Some("r1"), tags |-> {"trigonometry_vector_decomposition"}],
     [resourceId |-> Some("r2"),
      tags |-> {"trigonometry_vector_decomposition", "angle_misinterpretation"}],
     [resourceId |-> None, tags |-> {"trigonometry_vector_decomposition"}],
     [resourceId |-> Some("r2"), tags |-> {"prereq_unknown"}]}

ResourceCatalogs == UNION {[1..n -> ResourceEntries] : n \in 0..MaxResources}

\* problemTemplate["steps"]
ProblemSteps ==
    <<[stepNumber |-> 1, options |-> <<C_cos30, O_plain, O_swap>>,
       correctAnswer |-> C_cos30, explanation |-> E_angle,
       commonMisconceptions |-> <<M_sincos>>],
      [stepNumber |-> 2, options |-> <<O_plain, C_plain, O_cos60, O_swap>>,
       correctAnswer |-> C_plain, explanation |-> E_none,
       commonMisconceptions |-> <<>>]>>

\* selectedOptionIndex: 3 is the index of no option of step 1
OptionIndexes == 0..3

\* studentAnswers: step 3 is no step of the problem
StudentAnswers ==
    UNION {[1..n -> [stepNumber : 1..3, selectedOptionIndex : OptionIndexes]] :
              n \in 0..MaxStudentAnswers}

\* prereqMiniQuizResults
QuizResults ==
    {<<>>,
     <<[prereqTag |-> "trigonometry_vector_decomposition", passed |-> TRUE]>>,
     <<[prereqTag |-> "trigonometry_vector_decomposition", passed |-> FALSE]>>,
     <<[prereqTag |-> "angle_misinterpretation", passed |-> TRUE],
       [prereqTag |-> "trigonometry_vector_decomposition", passed |-> FALSE]>>}

\* the orders in which iterating a set of resource ids can yield them
IterationOrders ==
    {o \in [1..Cardinality(ResourceIds) -> ResourceIds] :
        \A i, j \in DOMAIN o : i # j => o[i] # o[j]}

\* list(ids), for a set ids iterated in the order o
ListOfSet(ids, o) == SelectSeq(o, LAMBDA r : r \in ids)

\* _resources_for_tag, from entry i of resources_db on
RECURSIVE ResourcesFrom(_, _, _)
ResourcesFrom(tag, resources_db, i) ==
    IF i > Len(resources_db) THEN <<>>
    ELSE (IF tag \in resources_db[i].tags /\ resources_db[i].resourceId # None
          THEN <<Get(resources_db[i].resourceId)>> ELSE <<>>)
         \o ResourcesFrom(tag, resources_db, i + 1)

\* _resources_for_tag with the test of prereq_unknown left out
ResourcesForTagAny(tag, resources_db) == ResourcesFrom(tag, resources_db, 1)

\* _resources_for_tag
ResourcesForTag(tag, resources_db) ==
    IF tag = "prereq_unknown" THEN <<>>
    ELSE ResourcesFrom(tag, resources_db, 1)

\* the number of words of each template of _SOCRATIC_HINTS
SOCRATIC_HINTS ==
    [trigonometry_vector_decomposition |-> 15, angle_misinterpretation |-> 17,
     decoupling_horizontal_vertical |-> 17, free_body_forces_signs |-> 22,
     stoichiometry_moles_vs_mass |-> 19, algebra_calculus_concepts |-> 16,
     prereq_unknown |-> 8]

\* _socratic_hint: the template of the tag (of prereq_unknown for any other tag), cut
\* to 30 words and an ellipsis when it is longer
SocraticHint(tag) ==
    LET key == IF tag \in DOMAIN SOCRATIC_HINTS THEN tag ELSE "prereq_unknown"
    IN  [template |-> key,
         words |-> IF SOCRATIC_HINTS[key] > 30 THEN 30 ELSE SOCRATIC_HINTS[key],
         ellipsis |-> SOCRATIC_HINTS[key] > 30]

\* _next_action
NextAction(step_results, prereq_quiz_results) ==
    LET failed == SelectSeq(step_results, LAMBDA s : ~s.correct)
    IN  IF failed = <<>> THEN "done"
        ELSE IF /\ prereq_quiz_results # <<>>
                /\ \A k \in DOMAIN prereq_quiz_results : prereq_quiz_results[k].passed
        THEN "proceed_step"
        ELSE IF \E k \in DOMAIN failed : failed[k].recommendedResourceIds # <<>>
        THEN "play_resource"
        ELSE "show_prereq_quiz"

\* step_map.get(step_num): the last step of that number, None when there is none
StepMapGet(steps, step_num) ==
    LET found == {k \in DOMAIN steps : steps[k].stepNumber = step_num}
    IN  IF found = {} THEN None
        ELSE Some(steps[CHOOSE k \in found : \A other \in found : other <= k])

\* lines 470-475: the index (from 0) of the first option that starts with the first 60
\* characters of the correct answer, both normalized; 0 when there is none
CorrectIdx(options, correct_text) ==
    LET cor == Normalize(correct_text)
        prefix == SubSeq(cor, 1, IF Len(cor) > 60 THEN 60 ELSE Len(cor))
        found == {i \in DOMAIN options : StartsWith(Normalize(options[i]), prefix)}
    IN  IF found = {} THEN 0
        ELSE (CHOOSE i \in found : \A other \in found : i <= other) - 1

\* lines 470-496: is_correct and, for a wrong answer, the classification of the
\* selected option
Grade(step, sel_idx) ==
    IF sel_idx = CorrectIdx(step.options, step.correctAnswer)
    THEN [correct |-> TRUE, classification |-> None]
    ELSE [correct |-> FALSE,
          classification |->
              Some(ClassifyWrongOption(
                  IF 0 <= sel_idx /\ sel_idx < Len(step.options)
                  THEN step.options[sel_idx + 1] ELSE <<>>,
                  step.correctAnswer,
                  [explanation |-> step.explanation,
                   commonMisconceptions |-> step.commonMisconceptions]))]

\* Grade on the steps and the option indexes of the model, computed once
GradeTable ==
    {<<step, sel_idx, Grade(step, sel_idx)>> :
        step \in Range(ProblemSteps), sel_idx \in OptionIndexes}

Graded(step, sel_idx) ==
    (CHOOSE row \in GradeTable : row[1] = step /\ row[2] = sel_idx)[3]

\* lines 477-517: the result of one answer to a step
StepResult(ans, step, resources_db) ==
    IF Graded(step, ans.selectedOptionIndex).correct
    THEN [stepNumber |-> ans.stepNumber, selectedOptionIndex |-> ans.selectedOptionIndex,
          correct |-> TRUE, inferredPrereqTag |-> None, confidence |-> "high",
          socraticHint |-> None, recommendedResourceIds |-> <<>>]
    ELSE LET classification == Get(Graded(step, ans.selectedOptionIndex).classification)
         IN  [stepNumber |-> ans.stepNumber,
              selectedOptionIndex |-> ans.selectedOptionIndex,
              correct |-> FALSE, inferredPrereqTag |-> Some(classification[1]),
              confidence |-> classification[2],
              socraticHint |-> Some(SocraticHint(classification[1])),
              recommendedResourceIds |->
                  ResourcesForTag(classification[1], resources_db)]

\* lines 456-519: step_results, from answer i on; an answer to an unknown step is skipped
RECURSIVE StepResults(_, _, _, _)
StepResults(student_answers, steps, resources_db, i) ==
    IF i > Len(student_answers) THEN <<>>
    ELSE (IF StepMapGet(steps, student_answers[i].stepNumber) = None THEN <<>>
          ELSE <<StepResult(student_answers[i],
                            Get(StepMapGet(steps, student_answers[i].stepNumber)),
                            resources_db)>>)
         \o StepResults(student_answers, steps, resources_db, i + 1)

\* lines 500-507: tag_resource_map after the first n step results, as the list of its
\* items in insertion order; a merged entry is a list made from a set
RECURSIVE TagResourceMap(_, _, _)
TagResourceMap(step_results, n, order) ==
    IF n = 0 THEN <<>>
    ELSE LET before_n == TagResourceMap(step_results, n - 1, order)
             sr == step_results[n]
             at == {k \in DOMAIN before_n : Some(before_n[k].tag) = sr.inferredPrereqTag}
         IN  IF sr.correct \/ sr.inferredPrereqTag = Some("prereq_unknown")
             THEN before_n
             ELSE IF at = {}
             THEN Append(before_n, [tag |-> Get(sr.inferredPrereqTag),
                                    res_ids |-> sr.recommendedResourceIds])
             ELSE [k \in DOMAIN before_n |->
                      IF k \in at
                      THEN [before_n[k] EXCEPT !.res_ids =
                               ListOfSet(Range(before_n[k].res_ids)
                                            \cup Range(sr.recommendedResourceIds), order)]
                      ELSE before_n[k]]

\* lines 531-536: the confidence of the first step result with the tag, high when
\* there is none
ConfidenceForTag(step_results, tag) ==
    LET with == {k \in DOMAIN step_results : step_results[k].inferredPrereqTag = Some(tag)}
    IN  IF with = {} THEN "high"
        ELSE step_results[CHOOSE k \in with : \A other \in with : k <= other].confidence

\* lines 521-556: overall_diagnosis
OverallDiagnosis(step_results, tag_resource_map, prereq_quiz_results) ==
    [k \in DOMAIN tag_resource_map |->
        [prereqTag |-> tag_resource_map[k].tag,
         confidence |-> ConfidenceForTag(step_results, tag_resource_map[k].tag),
         mastery |-> \E q \in DOMAIN prereq_quiz_results :
                        /\ prereq_quiz_results[q].prereqTag = tag_resource_map[k].tag
                        /\ prereq_quiz_results[q].passed,
         recommendedResourceIds |-> tag_resource_map[k].res_ids]]
    \o (IF \E k \in DOMAIN step_results :
              /\ ~step_results[k].correct
              /\ step_results[k].inferredPrereqTag = Some("prereq_unknown")
        THEN <<[prereqTag |-> "prereq_unknown", confidence |-> "low",
                mastery |-> FALSE, recommendedResourceIds |-> <<>>]>>
        ELSE <<>>)

\* run_diagnosis(payload), sets iterated in the order given
RunDiagnosis(payload, order) ==
    LET results ==
            {StepResults(payload.studentAnswers, payload.problemTemplate.steps,
                         payload.resourcesDB, 1)}
    IN  CHOOSE d \in
            {[stepResults |-> step_results,
              overallDiagnosis |->
                  OverallDiagnosis(step_results,
                      TagResourceMap(step_results, Len(step_results), order),
                      payload.prereqMiniQuizResults),
              nextAction |-> NextAction(step_results, payload.prereqMiniQuizResults)] :
                step_results \in results} : TRUE

-----------------------------------------------------------------------------
(* SpecDiagnosis: run_diagnosis over the answers, catalogs and quiz results of the
   model *)

Payloads ==
    [problemTemplate : {[steps |-> ProblemSteps]},
     studentAnswers : StudentAnswers,
     resourcesDB : ResourceCatalogs,
     prereqMiniQuizResults : QuizResults]

InitDiagnosis ==
    /\ patterns = <<>>
    /\ prerequisites = NoGraph
    /\ checkpoint = NoCheckpoint
    /\ ChainIdle
    /\ MatchIdle
    /\ EvalIdle
    /\ ConcIdle
    /\ PathIdle
    /\ MissingIdle
    /\ AnswerIdle
    /\ ClassifyIdle
    /\ DiagnosisIdle
    /\ SessionIdle

\* a call run_diagnosis(payload), up to its return statement
DiagnosisCall ==
    /\ diagnosis_query = None
    /\ \E payload \in Payloads, order \in IterationOrders :
          /\ diagnosis_query' = Some(payload)
          /\ diagnosis' = Some(RunDiagnosis(payload, order))
    /\ UNCHANGED <<classifyVars, sessionVars, answerVars, missingVars, pathVars, concVars,
                   prerequisites, patterns, chainVars, matchVars, evalVars>>

\* the return: the call is over
DiagnosisReturn ==
    /\ diagnosis_query # None
    /\ diagnosis_query' = None
    /\ diagnosis' = None
    /\ UNCHANGED <<classifyVars, sessionVars, answerVars, missingVars, pathVars, concVars,
                   prerequisites, patterns, chainVars, matchVars, evalVars>>

NextDiagnosis ==
    \/ DiagnosisCall
    \/ DiagnosisReturn

SpecDiagnosis == InitDiagnosis /\ [][NextDiagnosis]_vars

-----------------------------------------------------------------------------
(* Claims about run_diagnosis *)

\* the places of the catalog whose entry carries the tag and has a resourceId
Carrying(tag, resources_db) ==
    {i \in DOMAIN resources_db :
        tag \in resources_db[i].tags /\ resources_db[i].resourceId # None}

\* ids is, in catalog order, the list of the resourceIds of the entries carrying tag
InCatalogOrder(ids, tag, resources_db) ==
    /\ Len(ids) = Cardinality(Carrying(tag, resources_db))
    /\ \A i \in Carrying(tag, resources_db) :
          ids[Cardinality({j \in Carrying(tag, resources_db) : j <= i})]
              = Get(resources_db[i].resourceId)

\* C25: the recommendedResourceIds of a failed step are, in catalog order, exactly
\* the resourceIds of the catalog entries whose tags contain the step's inferred tag,
\* and the empty list for prereq_unknown whatever the catalog holds; every id of a
\* recommendedResourceIds list of the result is the resourceId of a catalog entry
\* that carries the tag the list is reported for
C25_ResourcesFromCatalog ==
    diagnosis # None =>
        \A db \in {Get(diagnosis_query).resourcesDB} :
            /\ \A k \in DOMAIN Get(diagnosis).stepResults :
                  \A sr \in {Get(diagnosis).stepResults[k]} :
                      IF sr.correct THEN sr.recommendedResourceIds = <<>>
                      ELSE IF sr.inferredPrereqTag = Some("prereq_unknown")
                      THEN sr.recommendedResourceIds = <<>>
                      ELSE InCatalogOrder(sr.recommendedResourceIds,
                                          Get(sr.inferredPrereqTag), db)
            /\ \A k \in DOMAIN Get(diagnosis).overallDiagnosis :
                  \A d \in {Get(diagnosis).overallDiagnosis[k]} :
                      /\ d.prereqTag = "prereq_unknown" => d.recommendedResourceIds = <<>>
                      /\ \A n \in DOMAIN d.recommendedResourceIds :
                            \E i \in Carrying(d.prereqTag, db) :
                                Get(db[i].resourceId) = d.recommendedResourceIds[n]

\* the catalog holds an entry tagged prereq_unknown and an entry for two tags; one
\* failed step is unknown and gets nothing, another is classified trig and gets r2
C25_Witness ==
    /\ diagnosis # None
    /\ Len(Get(diagnosis_query).resourcesDB) = 2
    /\ Get(diagnosis_query).resourcesDB[1].tags = {"prereq_unknown"}
    /\ Len(Get(diagnosis).stepResults) = 2
    /\ Get(diagnosis).stepResults[1].inferredPrereqTag = Some("prereq_unknown")
    /\ Get(diagnosis).stepResults[1].recommendedResourceIds = <<>>
    /\ Get(diagnosis).stepResults[2].inferredPrereqTag
          = Some("trigonometry_vector_decomposition")
    /\ Get(diagnosis).stepResults[2].recommendedResourceIds = <<"r2">>

\* a catalog with r2 before r1: the list keeps the catalog's order
C25_WitnessOrder ==
    /\ diagnosis # None
    /\ \E k \in DOMAIN Get(diagnosis).stepResults :
          Get(diagnosis).stepResults[k].recommendedResourceIds = <<"r2", "r1">>

\* high > medium > low
ConfidenceRank(confidence) ==
    CASE confidence = "high" -> 3 [] confidence = "medium" -> 2 [] confidence = "low" -> 1

\* C26 as stated: the confidence overallDiagnosis reports for a tag is the highest
\* confidence among the failed steps classified with the tag, in every order of the
\* answers
C26_AsStated ==
    diagnosis # None =>
        \A k \in DOMAIN Get(diagnosis).overallDiagnosis :
            \A d \in {Get(diagnosis).overallDiagnosis[k]} :
                \A n \in DOMAIN Get(diagnosis).stepResults :
                    \A sr \in {Get(diagnosis).stepResults[n]} :
                        (~sr.correct /\ sr.inferredPrereqTag = Some(d.prereqTag)) =>
                            ConfidenceRank(sr.confidence) <= ConfidenceRank(d.confidence)

\* what the code computes: the confidence of the first failed step with the tag
C26_FirstSeen ==
    diagnosis # None =>
        \A k \in DOMAIN Get(diagnosis).overallDiagnosis :
            \A d \in {Get(diagnosis).overallDiagnosis[k]} :
                \E n \in DOMAIN Get(diagnosis).stepResults :
                    /\ Get(diagnosis).stepResults[n].inferredPrereqTag = Some(d.prereqTag)
                    /\ Get(diagnosis).stepResults[n].confidence = d.confidence
                    /\ \A earlier \in 1..(n - 1) :
                          Get(diagnosis).stepResults[earlier].inferredPrereqTag
                              # Some(d.prereqTag)

=============================================================================
